---- MODULE Spec2Model ----
(***************************************************************************)
(* Model of the fetch-parse-persist pipeline of uwyo_downloader.           *)
(*                                                                         *)
(* The specifications share the variables:                                 *)
(*   Spec         - one run of DownloadWorker (ui/workers.py): the asyncio *)
(*                  orchestrator, its fetch tasks, the semaphore, the      *)
(*                  cancel flag set from the UI thread and the per-item    *)
(*                  store write.                                           *)
(*   SpecStore    - arbitrary sequences of store operations                *)
(*                  (db/repositories.py on the schema of db/orm.py).       *)
(*   SpecStations - the operations of StationRepository on the catalogue.  *)
(*   SpecBatch    - persistence batches in one session (di.py,             *)
(*                  MainWindow._finalize_download) beside a reader.        *)
(*   SpecRetry    - one call of DownloadWorker._retry_on_lock.             *)
(*   SpecFetch    - one call of fetch_sounding for every response.         *)
(*   SpecQuery    - SoundingRepository.list and count on a filled store.   *)
(*   SpecSync     - one run of StationListWorker beside other writers.     *)
(*   SpecParse    - _parse_sounding on text blocks, then the CSV round     *)
(*                  trip through _rows_to_csv and parse_csv_payload.       *)
(*   SpecPwv      - MainWindow._compute_pwv_for_record on row lists.       *)
(*   SpecLive     - Spec with the fairness of the event loop.              *)
(*   SpecTail     - a sequential run of DownloadWorker over up to MaxTail  *)
(*                  instants, an empty list included.                      *)
(*   SpecEnsure   - ensure_station statement by statement beside           *)
(*                  upsert_many of another session.                        *)
(*   SpecDates    - build_datetimes (utils.py) on bounded inputs.          *)
(*   SpecWindow   - the download controls of MainWindow, its download      *)
(*                  threads and the accumulator of ui/state.py.            *)
(*                                                                         *)
(* DownloadWorker awaits fetch_sounding and enters build_http_client with  *)
(* "async with": both are modelled by that calling convention, i.e. the    *)
(* request is a suspension point of the task; the classification of the    *)
(* response is the one of services/soundings.py.                           *)
(***************************************************************************)
EXTENDS Integers, Sequences, FiniteSets, TLC

VARIABLES
    concurrency,  \* DownloadWorker.concurrency
    total,        \* len(self.datetimes); the instants are 1..total
    cancel_flag,  \* DownloadWorker._cancel_flag (threading.Event)
    pc,           \* position of run()/_run()
    task,         \* state of the asyncio task of each instant
    tres,         \* what the task of each instant returned
    sem,          \* free permits of the asyncio.Semaphore
    queue,        \* finished tasks not yet yielded by as_completed
    processed,    \* instants the orchestrator has received, in order
    done,         \* the local counter "done" of _run
    errors,       \* the local list "errors" of _run (instants)
    progress,     \* values of done emitted by the progress signal
    outcome,      \* what the finished signal reported
    summary,      \* the text that the finished signal carried
    written,      \* instants whose result this run wrote to the store
    stations,     \* table stations: id -> row
    soundings,    \* table soundings: set of rows
    clock,        \* utcnow(), advanced by every store operation
    late,         \* instants whose fetch settled with the flag set
    latest,       \* (station_id, captured_at) -> the most recent upsert
    lastOp,       \* the last store operation, its arguments and its result
    txn,          \* the open session of a persistence batch, if any
    lastrowid,    \* last_insert_rowid() of the pooled connection
    retry,        \* one call of DownloadWorker._retry_on_lock
    fetch,        \* one call of fetch_sounding taken by itself
    query,        \* one call of SoundingRepository.list and count
    sync,         \* one run of StationListWorker
    parse,        \* one call of _parse_sounding, line by line
    pwv,          \* one call of MainWindow._compute_pwv_for_record
    ensure,       \* one call of ensure_station between lookup and write
    dates,        \* one call of build_datetimes
    ui            \* the download state of MainWindow and its threads

orchVars == <<concurrency, total, cancel_flag, pc, task, tres, sem, queue,
              processed, done, errors, progress, outcome, summary, written,
              late>>
storeVars == <<stations, soundings, clock, latest, lastOp, txn, lastrowid>>
calcVars == <<query, sync, parse, pwv, ensure, dates, ui>>
pureVars == <<retry, fetch, query, sync, parse, pwv, ensure, dates, ui>>
vars == <<concurrency, total, cancel_flag, pc, task, tres, sem, queue,
          processed, done, errors, progress, outcome, summary, written, late,
          stations, soundings, clock, latest, lastOp, txn, lastrowid,
          retry, fetch, query, sync, parse, pwv, ensure, dates, ui>>

----------------------------------------------------------------------------
(* Bounds of the model *)

MaxInstants == 3
MaxConcurrency == 2
MaxOps == 3
MaxRetries == 5
MaxStations == 2

Instants == 1..MaxInstants
\* captured_at values used by the store operations of SpecStore
StoreInstants == {1, 2}
StationIds == {"s1", "s2"}
Names == {"n1", "n2"}
Payloads == {"p1", "p2"}
None == "none"

\* DownloadWorker.station_id of the modelled run, and the station name and
\* payload that its fetch results carry
RunStation == "s1"
RunName == "n2"
RunPayload == "p2"

\* _retry_on_lock is called with delay 0.2 and 0.15 s: milliseconds
Delays == {150, 200}
\* the status codes of a response
HttpStatuses == 100..599
\* the text of the first <h3> of a response, if it has one
Headings == {None, "n1"}

----------------------------------------------------------------------------
(* The store: db/repositories.py on the schema of db/orm.py *)


\* StationInfo(stationid, name, lat/lon, src, updated_at)
StationInfo(id, name, coords, src, at) ==
    [stationid |-> id, name |-> name, coords |-> coords, src |-> src,
     updated_at |-> at]

\* _ensure_dt: a missing timestamp (<<>>) becomes utcnow()
EnsureDt(at, now) == IF at = <<>> THEN now ELSE at[1]

\* stations is a rowid table (its primary key is a string): an inserted
\* row takes the largest rowid plus one
NewRowid(st) ==
    IF DOMAIN st = {} THEN 1
    ELSE 1 + CHOOSE m \in {st[x].rowid : x \in DOMAIN st} :
                 \A x \in DOMAIN st : st[x].rowid <= m

\* the row that INSERT ... ON CONFLICT(id) DO UPDATE leaves for one station:
\* the five columns of set_ come from the statement, the rowid stays
StationRow(info, now, rowid) ==
    [name |-> info.name, coords |-> info.coords, src |-> info.src,
     updated_at |-> EnsureDt(info.updated_at, now), rowid |-> rowid]

\* ON CONFLICT(id) DO NOTHING: rows that exist are kept as they are
upsert_many_ignore(st, infos, now) ==
    LET ids == {infos[k].stationid : k \in 1..Len(infos)}
        first(id) == infos[CHOOSE k \in 1..Len(infos) :
                              /\ infos[k].stationid = id
                              /\ \A j \in 1..(k - 1) :
                                    infos[j].stationid # id]
    IN [id \in DOMAIN st \cup ids |->
           IF id \in DOMAIN st THEN st[id]
           ELSE StationRow(first(id), now, NewRowid(st))]

\* StationRepository.upsert_many: the rows are applied in list order
RECURSIVE upsert_many(_, _, _)
upsert_many(st, infos, now) ==
    IF infos = <<>> THEN st
    ELSE LET i == Head(infos)
             st1 == [id \in DOMAIN st \cup {i.stationid} |->
                        IF id # i.stationid THEN st[id]
                        ELSE IF id \in DOMAIN st
                        THEN StationRow(i, now, st[id].rowid)
                        ELSE StationRow(i, now, NewRowid(st))]
         IN upsert_many(st1, Tail(infos), now)

\* upsert_many: "return 0" on an empty list, else "return len(rows)"
upsert_many_returns(infos) == Len(infos)

\* last_insert_rowid() of the connection after the statement of
\* upsert_many: the rowid of the last row it inserted; rows taken by the
\* DO UPDATE branch leave it as it was
RECURSIVE stations_lastrowid(_, _, _, _)
stations_lastrowid(st, infos, now, lr) ==
    IF infos = <<>> THEN lr
    ELSE LET i == Head(infos)
             lr1 == IF i.stationid \in DOMAIN st THEN lr ELSE NewRowid(st)
         IN stations_lastrowid(upsert_many(st, <<i>>, now), Tail(infos),
                               now, lr1)

\* StationRepository.get_by_id: the row, or nothing
get_by_id(st, id) == IF id \in DOMAIN st THEN {st[id]} ELSE {}

\* "name or station_id": a missing or empty name is falsy
NameOrId(name, id) == IF name \in {None, ""} THEN id ELSE name

\* the placeholder StationInfo that ensure_station builds
Placeholder(id, name, now) ==
    StationInfo(id, NameOrId(name, id), None, None, <<now>>)

\* an ensure_station that upserts the placeholder whether or not the row
\* exists
ensure_overwrites(st, id, name, now) ==
    upsert_many(st, <<Placeholder(id, name, now)>>, now)

\* StationRepository.ensure_station: an existing row is returned untouched,
\* otherwise a placeholder named "name or station_id" is inserted
ensure_station(st, id, name, now) ==
    IF get_by_id(st, id) # {} THEN st
    ELSE upsert_many(st, <<Placeholder(id, name, now)>>, now)

\* what ensure_station returns: "existing", read from the row, or "info"
ensure_station_returns(st, id, name, now) ==
    IF get_by_id(st, id) # {}
    THEN StationInfo(id, st[id].name, st[id].coords, st[id].src,
                     <<st[id].updated_at>>)
    ELSE Placeholder(id, name, now)

\* last_insert_rowid() of the connection after ensure_station
ensure_station_lastrowid(st, id, name, now, lr) ==
    IF get_by_id(st, id) # {} THEN lr
    ELSE stations_lastrowid(st, <<Placeholder(id, name, now)>>, now, lr)

\* the row of the unique pair (station_id, captured_at), if any
RowsOf(snd, sid, cap) ==
    {r \in snd : r.station_id = sid /\ r.captured_at = cap}

\* INTEGER PRIMARY KEY without AUTOINCREMENT: largest rowid plus one
NewId(snd) ==
    IF snd = {} THEN 1
    ELSE 1 + CHOOSE m \in {r.id : r \in snd} :
                 \A k \in {r.id : r \in snd} : k <= m

\* ON CONFLICT DO NOTHING: the existing row is kept as it is
InsertOrIgnore(snd, sid, name, cap, payload, now) ==
    IF RowsOf(snd, sid, cap) # {} THEN snd
    ELSE snd \cup {[id |-> NewId(snd), station_id |-> sid,
                    station_name |-> name, captured_at |-> cap,
                    payload |-> payload, downloaded_at |-> now]}

\* an insert without a conflict clause and without the unique constraint
InsertAlways(snd, sid, name, cap, payload, now) ==
    snd \cup {[id |-> NewId(snd), station_id |-> sid, station_name |-> name,
               captured_at |-> cap, payload |-> payload,
               downloaded_at |-> now]}

\* SoundingRepository.upsert_sounding: INSERT ... ON CONFLICT(station_id,
\* captured_at) DO UPDATE SET payload_json, station_name, downloaded_at
upsert_sounding(snd, sid, name, cap, payload, now) ==
    IF RowsOf(snd, sid, cap) # {}
    THEN {IF r \in RowsOf(snd, sid, cap)
          THEN [r EXCEPT !.payload = payload, !.station_name = name,
                         !.downloaded_at = now]
          ELSE r : r \in snd}
    ELSE snd \cup {[id |-> NewId(snd), station_id |-> sid,
                    station_name |-> name, captured_at |-> cap,
                    payload |-> payload, downloaded_at |-> now]}

\* last_insert_rowid() of the connection after the statement of
\* upsert_sounding: the DO UPDATE branch inserts nothing and leaves it
upsert_sounding_lastrowid(snd, sid, cap, lr) ==
    IF RowsOf(snd, sid, cap) # {} THEN lr ELSE NewId(snd)

\* what upsert_sounding returns: result.inserted_primary_key[0] is
\* cursor.lastrowid, i.e. last_insert_rowid() after the statement; only a
\* falsy value leads to the SELECT of the id of the unique pair
upsert_sounding_returns(snd, sid, cap, lr) ==
    LET inserted_id == upsert_sounding_lastrowid(snd, sid, cap, lr)
        existing == IF RowsOf(snd, sid, cap) # {}
                    THEN {r.id : r \in RowsOf(snd, sid, cap)}
                    ELSE {NewId(snd)}
    IN IF inserted_id # 0 THEN inserted_id
       ELSE IF existing # {} THEN CHOOSE x \in existing : TRUE
       ELSE 0

\* a delete that does not cascade (PRAGMA foreign_keys off)
DeleteNoCascade(snd, sid) == snd

\* DELETE of a station row with foreign_keys=ON and ondelete="CASCADE"
cascade_delete(snd, sid) == {r \in snd : r.station_id # sid}

\* the foreign key fk_soundings_station under PRAGMA foreign_keys=ON
fk_ok(st, sid) == sid \in DOMAIN st

\* bookkeeping of the most recent upsert of a key
Remember(lt, sid, name, cap, payload, now) ==
    LET k == <<sid, cap>>
        n == IF k \in DOMAIN lt THEN lt[k].n + 1 ELSE 1
    IN [x \in DOMAIN lt \cup {k} |->
           IF x = k THEN [payload |-> payload, station_name |-> name,
                          at |-> now, n |-> n]
           ELSE lt[x]]

Forget(lt, sid) == [x \in {k \in DOMAIN lt : k[1] # sid} |-> lt[x]]

EmptyFn == [x \in {} |-> None]

\* the record of a store operation: its kind, the station it names, the
\* number of soundings a delete removed, its other argument and its result
Op(kind, id, removed, arg, ret) ==
    [kind |-> kind, id |-> id, removed |-> removed, arg |-> arg, ret |-> ret]

NoOp == Op("none", None, 0, None, None)
NoTxn == [open |-> FALSE]

\* no query, station sync, parse or integration is under way
NoCall == [pc |-> "idle"]

\* DownloadWorker._run._write: ensure_station, then upsert_sounding, in one
\* session; both results are dropped
StoreWrite(sid, name, cap, payload) ==
    /\ stations' = ensure_station(stations, sid, name, clock + 1)
    /\ soundings' = upsert_sounding(soundings, sid, name, cap, payload,
                                    clock + 1)
    /\ clock' = clock + 1
    /\ latest' = Remember(latest, sid, name, cap, payload, clock + 1)
    /\ lastOp' = Op("write", sid, 0, cap, None)
    /\ lastrowid' = upsert_sounding_lastrowid(soundings, sid, cap,
                        ensure_station_lastrowid(stations, sid, name,
                                                 clock + 1, lastrowid))
    /\ txn' = txn

----------------------------------------------------------------------------
(* The lock-retry wrapper: DownloadWorker._retry_on_lock *)

\* what one invocation of func() does: it returns, or raises an exception
\* of some type; cause is the failure behind it, locked_text and busy_text
\* say whether str(exc).lower() contains "database is locked" and "busy"
\* (the text of a SQLAlchemy error carries the statement and its bound
\* parameters beside the message of the driver)
Outcome(type, cause, locked_text, busy_text) ==
    [type |-> type, cause |-> cause, locked_text |-> locked_text,
     busy_text |-> busy_text]

Returned == Outcome("return", "none", FALSE, FALSE)

FuncOutcomes ==
    {Returned,
     Outcome("OperationalError", "lock", TRUE, FALSE),
     Outcome("Exception", "other", FALSE, FALSE)}
    \cup {Outcome("OperationalError", "other", FALSE, b) : b \in BOOLEAN}
    \cup {Outcome("IntegrityError", "constraint", FALSE, b) : b \in BOOLEAN}

\* "except OperationalError as exc"
is_operational(o) == o.type = "OperationalError"

\* the test of the message: "database is locked" in msg or "busy" in msg
lock_message(o) == o.locked_text \/ o.busy_text

\* the exceptions after which the loop goes on
retried(o) == is_operational(o) /\ lock_message(o)

\* a wait that does not grow
constant_sleep(delay, attempt) == delay

\* time.sleep(delay * (attempt + 1)), attempt counted from 0
sleep_for(delay, attempt) == delay * (attempt + 1)

NoRetry == [pc |-> "idle"]

\* the call _retry_on_lock(func, retries, delay) at the head of its loop
RetryStart(retries, delay) ==
    [pc |-> "loop", retries |-> retries, delay |-> delay, attempt |-> 0,
     history |-> <<>>, slept |-> <<>>, last_exc |-> <<>>, result |-> <<>>]

\* one pass of "for attempt in range(retries)" up to the sleep
RetryCall(o) ==
    /\ retry.pc = "loop"
    /\ retry.attempt < retry.retries
    /\ retry' =
          IF o.type = "return"
          THEN [retry EXCEPT !.pc = "returned",
                             !.history = Append(@, o),
                             !.result = <<o>>]
          ELSE IF retried(o)
          THEN [retry EXCEPT !.pc = "sleep",
                             !.history = Append(@, o),
                             !.last_exc = <<o>>]
          ELSE [retry EXCEPT !.pc = "raised",
                             !.history = Append(@, o),
                             !.result = <<o>>]
    /\ UNCHANGED <<orchVars, storeVars, fetch, calcVars>>

\* the sleep that ends a failed pass, then the next value of attempt
RetrySleep ==
    /\ retry.pc = "sleep"
    /\ retry' = [retry EXCEPT !.pc = "loop",
                              !.slept = Append(@, sleep_for(retry.delay,
                                                            retry.attempt)),
                              !.attempt = @ + 1]
    /\ UNCHANGED <<orchVars, storeVars, fetch, calcVars>>

\* range(retries) is used up: "if last_exc: raise last_exc", else the
\* function falls off its end and returns None
RetryEnd ==
    /\ retry.pc = "loop"
    /\ retry.attempt >= retry.retries
    /\ retry' = IF retry.last_exc # <<>>
                THEN [retry EXCEPT !.pc = "raised", !.result = retry.last_exc]
                ELSE [retry EXCEPT !.pc = "returned"]
    /\ UNCHANGED <<orchVars, storeVars, fetch, calcVars>>

----------------------------------------------------------------------------
(* The fetch: services/soundings.py, and how bounded_fetch returns it *)

\* status 0 stands for a request that raised in client.get (no response)
Statuses == {0, 200, 204, 404, 500}
Responses == [status : Statuses, pre : BOOLEAN]

\* a fetch that takes every 2xx status as a success
fetch_accepts_2xx(resp) ==
    IF resp.status = 0 THEN "transport"
    ELSE IF resp.status = 404 THEN "nodata"
    ELSE IF resp.status \notin 200..299 THEN "http_error"
    ELSE IF ~resp.pre THEN "no_pre"
    ELSE "result"

\* a fetch without the test for 404
fetch_404_as_error(resp) ==
    IF resp.status = 0 THEN "transport"
    ELSE IF resp.status # 200 THEN "http_error"
    ELSE IF ~resp.pre THEN "no_pre"
    ELSE "result"

\* fetch_sounding: what one request yields
fetch_sounding(resp) ==
    IF resp.status = 0 THEN "transport"
    ELSE IF resp.status = 404 THEN "nodata"
    ELSE IF resp.status # 200 THEN "http_error"
    ELSE IF ~resp.pre THEN "no_pre"
    ELSE "result"

\* the message of the RuntimeError that fetch_sounding raises: f"HTTP
\* {resp.status_code}", or the fixed text about the missing <pre> block
Message(text, code) == [text |-> text, code |-> code]
NoMessage == Message("", 0)

fetch_message(resp) ==
    IF resp.status \in {0, 404} THEN NoMessage
    ELSE IF resp.status # 200 THEN Message("HTTP", resp.status)
    ELSE IF ~resp.pre THEN Message("no <pre> block", 0)
    ELSE NoMessage

\* station_name = h3.get_text(strip=True) if h3 else str(station_id)
station_name(resp, station_id) ==
    IF resp.h3 # None THEN resp.h3 ELSE station_id

\* the responses of a request; status 0 is a request that raised
FetchInputs == [status : {0} \cup HttpStatuses, pre : BOOLEAN, h3 : Headings]

NoFetch == [pc |-> "idle"]

\* fetch_sounding(client, station_id, dt, ...) from the response on
FetchOnce ==
    /\ fetch.pc = "request"
    /\ fetch' = [pc |-> "done", resp |-> fetch.resp,
                 out |-> fetch_sounding(fetch.resp),
                 message |-> fetch_message(fetch.resp),
                 name |-> IF fetch_sounding(fetch.resp) = "result"
                          THEN station_name(fetch.resp, RunStation)
                          ELSE None]
    /\ UNCHANGED <<orchVars, storeVars, retry, calcVars>>

ItemErrors == {"http_error", "no_pre", "transport"}

\* a bounded_fetch that stores its result itself
task_writes_row(snd, i) ==
    upsert_sounding(snd, RunStation, RunName, i, RunPayload, 0)

\* what bounded_fetch does to the store: it uses no session, every write
\* is in the loop of _run
task_store_effect(snd, i) == snd

\* a bounded_fetch without the "except Exception" clause
only_values_returned(o) == o \in {"result", "nodata"}

\* bounded_fetch: "except Exception as exc: return dt, None, exc" turns
\* every exception of the fetch into a returned item
returned_as_item(o) == o \in {"result", "nodata"} \cup ItemErrors

\* a run that takes no list as empty
never_empty(n) == FALSE

\* "if not self.datetimes": n is len(self.datetimes)
no_datetimes(n) == n = 0

\* a constructor that keeps a concurrency of zero
no_clamp(c) == c

\* DownloadWorker.__init__: self.concurrency = max(1, concurrency)
ClampConcurrency(c) == IF c < 1 THEN 1 ELSE c

\* a semaphore that never blocks
never_locked(v) == FALSE

\* asyncio.Semaphore.locked()
sem_locked(v) == v = 0

\* the first flag check of bounded_fetch
start_cancelled(flag) == flag

\* done counted for stored results only
next_done_results_only(d, o) == IF o = "result" THEN d + 1 ELSE d

\* done += 1
next_done(d, o) == d + 1

\* a tail that does not look at the recorded errors
success_unless_cancelled(flag, errs) ==
    IF flag THEN "cancelled" ELSE "completed"

\* the tail of _run: which finished signal is emitted
final_outcome(flag, errs) ==
    IF flag THEN "cancelled"
    ELSE IF errs # <<>> THEN "failed"
    ELSE "completed"

\* the text of the error that _run records for instant i: the fetch error
\* f"{dt} ошибка: {exc}" of an item that carries an exception, or
\* f"{dt} база: {repo_exc}" of a result whose _write raised
error_message(i, o) ==
    IF o = "result" THEN ToString(i) \o " db: write failed"
    ELSE ToString(i) \o " error: " \o o

\* every recorded error goes into the text
all_errors(errs) == errs

\* errors[-3:]
last_three(errs) ==
    SubSeq(errs, IF Len(errs) > 3 THEN Len(errs) - 2 ELSE 1, Len(errs))

\* sep.join(parts)
RECURSIVE join(_, _)
join(sep, parts) ==
    IF parts = <<>> THEN ""
    ELSE IF Len(parts) = 1 THEN parts[1]
    ELSE parts[1] \o sep \o join(sep, Tail(parts))

\* the text of the finished signal at the tail of _run; errs are the
\* instants of the recorded errors, res what the task of each returned
finished_text(flag, errs, res) ==
    IF flag THEN "cancelled"
    ELSE IF errs # <<>>
    THEN join("; ", last_three([k \in 1..Len(errs) |->
                                   error_message(errs[k], res[errs[k]])]))
    ELSE "done"

\* a handler that leaves the tasks as they are
leave_outstanding(t) == t

\* "for task in tasks: task.cancel()" followed by gather
cancel_outstanding(t) ==
    [j \in DOMAIN t |->
        IF t[j] \in {"created", "waiting", "woken", "fetching"}
        THEN "cancelled" ELSE t[j]]

InFlight == {i \in DOMAIN task : task[i] = "fetching"}
Waiting == {i \in DOMAIN task : task[i] = "waiting"}
Range(q) == {q[k] : k \in 1..Len(q)}
Least(S) == CHOOSE m \in S : \A k \in S : m <= k

----------------------------------------------------------------------------
(* DownloadWorker: run(), _run() and the tasks of bounded_fetch *)

\* DownloadWorker.cancel, called from the UI thread at any moment
Cancel ==
    /\ pc # "finished"
    /\ ~cancel_flag
    /\ cancel_flag' = TRUE
    /\ UNCHANGED <<concurrency, total, pc, task, tres, sem, queue, processed,
                   done, errors, progress, outcome, written, late>>
    /\ UNCHANGED summary
    /\ UNCHANGED storeVars
    /\ UNCHANGED pureVars

\* run() with no datetimes: finished(False, ...)
RunEmpty ==
    /\ pc = "idle"
    /\ no_datetimes(total)
    /\ pc' = "finished"
    /\ outcome' = "failed"
    /\ summary' = "no datetimes"
    /\ UNCHANGED <<concurrency, total, cancel_flag, task, tres, sem, queue,
                   processed, done, errors, progress, written, late>>
    /\ UNCHANGED storeVars
    /\ UNCHANGED pureVars

\* run() up to the head of the as_completed loop: the tasks are created
Run ==
    /\ pc = "idle"
    /\ ~no_datetimes(total)
    /\ task' = [i \in 1..total |-> "created"]
    /\ tres' = [i \in 1..total |-> None]
    /\ sem' = concurrency
    /\ pc' = "for"
    /\ UNCHANGED <<concurrency, total, cancel_flag, queue, processed, done,
                   errors, progress, outcome, written, late>>
    /\ UNCHANGED summary
    /\ UNCHANGED storeVars
    /\ UNCHANGED pureVars

\* the except asyncio.CancelledError handler of _run, then of run()
Abandon ==
    /\ task' = cancel_outstanding(task)
    /\ pc' = "finished"
    /\ outcome' = "cancelled"
    /\ summary' = "cancelled"

\* the loop has yielded every task: leave it and emit finished
LoopExit ==
    /\ pc = "for"
    /\ Len(processed) = total
    /\ pc' = "finished"
    /\ outcome' = final_outcome(cancel_flag, errors)
    /\ summary' = finished_text(cancel_flag, errors, tres)
    /\ UNCHANGED <<concurrency, total, cancel_flag, task, tres, sem, queue,
                   processed, done, errors, progress, written, late>>
    /\ UNCHANGED storeVars
    /\ UNCHANGED pureVars

\* "if self._cancel_flag.is_set(): raise asyncio.CancelledError()"
LoopCancelled ==
    /\ pc = "for"
    /\ Len(processed) < total
    /\ cancel_flag
    /\ Abandon
    /\ UNCHANGED <<concurrency, total, cancel_flag, tres, sem, queue,
                   processed, done, errors, progress, written, late>>
    /\ UNCHANGED storeVars
    /\ UNCHANGED pureVars

\* "await coro": with nothing finished the orchestrator suspends and the
\* tasks run; with a finished task waiting it goes on without yielding
LoopAwait ==
    /\ pc = "for"
    /\ Len(processed) < total
    /\ ~cancel_flag
    /\ pc' = IF queue = <<>> THEN "suspended" ELSE "await"
    /\ UNCHANGED <<concurrency, total, cancel_flag, task, tres, sem, queue,
                   processed, done, errors, progress, outcome, written, late>>
    /\ UNCHANGED summary
    /\ UNCHANGED storeVars
    /\ UNCHANGED pureVars

\* first step of bounded_fetch(dt): the flag check, then "async with sem"
\* and, with a free permit, the request; tasks start in creation order
TaskStart(i) ==
    /\ pc = "suspended"
    /\ i \in DOMAIN task
    /\ task[i] = "created"
    /\ \A j \in 1..(i - 1) : task[j] # "created"
    /\ IF start_cancelled(cancel_flag)
       THEN /\ task' = [task EXCEPT ![i] = "cancelled"]
            /\ queue' = Append(queue, i)
            /\ sem' = sem
       ELSE IF ~sem_locked(sem)
       THEN /\ task' = [task EXCEPT ![i] = "fetching"]
            /\ sem' = sem - 1
            /\ queue' = queue
       ELSE /\ task' = [task EXCEPT ![i] = "waiting"]
            /\ UNCHANGED <<sem, queue>>
    /\ UNCHANGED <<concurrency, total, cancel_flag, pc, tres, processed, done,
                   errors, progress, outcome, written, late>>
    /\ UNCHANGED summary
    /\ UNCHANGED storeVars
    /\ UNCHANGED pureVars

\* a waiter that release() woke resumes inside "async with sem" and sends
\* its request
WaiterResume(i) ==
    /\ pc = "suspended"
    /\ i \in DOMAIN task
    /\ task[i] = "woken"
    /\ task' = [task EXCEPT ![i] = "fetching"]
    /\ UNCHANGED <<concurrency, total, cancel_flag, pc, tres, sem, queue,
                   processed, done, errors, progress, outcome, written, late>>
    /\ UNCHANGED summary
    /\ UNCHANGED storeVars
    /\ UNCHANGED pureVars

\* the request of task i settles; leaving "async with sem" releases the
\* permit, which goes to the first waiter if there is one
FetchSettle(i, resp) ==
    /\ pc = "suspended"
    /\ i \in DOMAIN task
    /\ task[i] = "fetching"
    /\ LET o == fetch_sounding(resp)
           t1 == [task EXCEPT ![i] = IF returned_as_item(o) THEN "done"
                                     ELSE "raised"]
       IN /\ tres' = [tres EXCEPT ![i] = o]
          /\ IF Waiting # {}
             THEN /\ task' = [t1 EXCEPT ![Least(Waiting)] = "woken"]
                  /\ sem' = sem
             ELSE /\ task' = t1
                  /\ sem' = sem + 1
    /\ queue' = Append(queue, i)
    /\ late' = IF cancel_flag THEN late \cup {i} ELSE late
    /\ soundings' = task_store_effect(soundings, i)
    /\ UNCHANGED <<concurrency, total, cancel_flag, pc, processed, done,
                   errors, progress, outcome, written>>
    /\ UNCHANGED <<stations, clock, latest, lastOp, txn, lastrowid>>
    /\ UNCHANGED summary
    /\ UNCHANGED pureVars

\* "dt, result, exc = await coro" raises: the awaited task was cancelled
ReceiveCancelled ==
    /\ pc \in {"await", "suspended"}
    /\ queue # <<>>
    /\ task[Head(queue)] = "cancelled"
    /\ queue' = Tail(queue)
    /\ Abandon
    /\ UNCHANGED <<concurrency, total, cancel_flag, tres, sem, processed,
                   done, errors, progress, written, late>>
    /\ UNCHANGED storeVars
    /\ UNCHANGED pureVars

\* the body of the loop for a returned item whose result is a
\* SoundingFetchResult: _retry_on_lock(_write) either commits or raises
ReceiveResult(wr) ==
    /\ pc \in {"await", "suspended"}
    /\ queue # <<>>
    /\ task[Head(queue)] = "done"
    /\ tres[Head(queue)] = "result"
    /\ LET i == Head(queue) IN
       /\ queue' = Tail(queue)
       /\ processed' = Append(processed, i)
       /\ done' = next_done(done, tres[i])
       /\ progress' = Append(progress, done')
       /\ IF wr = "ok"
          THEN /\ StoreWrite(RunStation, RunName, i, RunPayload)
               /\ written' = written \cup {i}
               /\ errors' = errors
          ELSE /\ errors' = Append(errors, i)
               /\ UNCHANGED written
               /\ UNCHANGED storeVars
    /\ pc' = "for"
    /\ UNCHANGED <<concurrency, total, cancel_flag, task, tres, sem, outcome,
                   late>>
    /\ UNCHANGED summary
    /\ UNCHANGED pureVars

\* the body of the loop for an item that carries an exception or nothing;
\* an exception that bounded_fetch let through is raised by "await coro",
\* leaves _run, and run() emits finished(False, str(exc))
ReceiveOther ==
    /\ pc \in {"await", "suspended"}
    /\ queue # <<>>
    /\ task[Head(queue)] \in {"done", "raised"}
    /\ tres[Head(queue)] # "result"
    /\ LET i == Head(queue) IN
       /\ queue' = Tail(queue)
       /\ IF task[i] = "raised"
          THEN /\ pc' = "finished"
               /\ outcome' = "failed"
               /\ summary' = tres[i]
               /\ UNCHANGED <<processed, done, progress, errors>>
          ELSE /\ processed' = Append(processed, i)
               /\ done' = next_done(done, tres[i])
               /\ progress' = Append(progress, done')
               /\ errors' = IF tres[i] \in ItemErrors THEN Append(errors, i)
                            ELSE errors
               /\ pc' = "for"
               /\ outcome' = outcome
               /\ summary' = summary
    /\ UNCHANGED <<concurrency, total, cancel_flag, task, tres, sem, written,
                   late>>
    /\ UNCHANGED storeVars
    /\ UNCHANGED pureVars

----------------------------------------------------------------------------
(* Store operations as steps; every one runs in a session that commits *)

WriteBatch(sid, name, cap, payload) ==
    /\ clock < MaxOps
    /\ ~txn.open
    /\ StoreWrite(sid, name, cap, payload)
    /\ UNCHANGED orchVars
    /\ UNCHANGED pureVars

EnsureStation(sid, name) ==
    /\ clock < MaxOps
    /\ ~txn.open
    /\ stations' = ensure_station(stations, sid, name, clock + 1)
    /\ clock' = clock + 1
    /\ lastOp' = Op("ensure", sid, 0, name,
                    ensure_station_returns(stations, sid, name, clock + 1))
    /\ lastrowid' = ensure_station_lastrowid(stations, sid, name, clock + 1,
                                             lastrowid)
    /\ UNCHANGED <<soundings, latest, txn>>
    /\ UNCHANGED orchVars
    /\ UNCHANGED pureVars

\* upsert_sounding alone: with the station absent the insert violates
\* fk_soundings_station and the session rolls back
UpsertSounding(sid, name, cap, payload) ==
    /\ clock < MaxOps
    /\ ~txn.open
    /\ clock' = clock + 1
    /\ IF fk_ok(stations, sid)
       THEN /\ soundings' = upsert_sounding(soundings, sid, name, cap,
                                            payload, clock + 1)
            /\ latest' = Remember(latest, sid, name, cap, payload, clock + 1)
            /\ lastOp' = Op("upsert", sid, 0, cap,
                            upsert_sounding_returns(soundings, sid, cap,
                                                    lastrowid))
            /\ lastrowid' = upsert_sounding_lastrowid(soundings, sid, cap,
                                                      lastrowid)
       ELSE /\ lastOp' = Op("rejected", sid, 0, cap, None)
            /\ UNCHANGED <<soundings, latest, lastrowid>>
    /\ UNCHANGED <<stations, txn>>
    /\ UNCHANGED orchVars
    /\ UNCHANGED pureVars

DeleteStation(sid) ==
    /\ clock < MaxOps
    /\ ~txn.open
    /\ sid \in DOMAIN stations
    /\ stations' = [x \in DOMAIN stations \ {sid} |-> stations[x]]
    /\ soundings' = cascade_delete(soundings, sid)
    /\ clock' = clock + 1
    /\ latest' = Forget(latest, sid)
    /\ lastOp' = Op("delete", sid,
                    Cardinality({r \in soundings : r.station_id = sid}),
                    None, None)
    /\ UNCHANGED <<txn, lastrowid>>
    /\ UNCHANGED orchVars
    /\ UNCHANGED pureVars

\* the station list of the catalogue endpoint as fetch_stations_for_datetime
\* builds it: every entry carries fetched_at
CatalogueEntries(at) ==
    {StationInfo(id, name, "c1", "net", <<at>>) :
        id \in StationIds, name \in Names}

RECURSIVE SeqsUpTo(_, _)
SeqsUpTo(S, n) ==
    IF n = 0 THEN {<<>>}
    ELSE SeqsUpTo(S, n - 1)
         \cup {Append(q, x) : q \in {p \in SeqsUpTo(S, n - 1) :
                                         Len(p) = n - 1}, x \in S}

\* StationRepository.upsert_many(stations) in a session that commits
UpsertMany(infos) ==
    /\ clock < MaxOps
    /\ ~txn.open
    /\ stations' = upsert_many(stations, infos, clock + 1)
    /\ clock' = clock + 1
    /\ lastOp' = Op("upsert_many", None, 0, infos, upsert_many_returns(infos))
    /\ lastrowid' = stations_lastrowid(stations, infos, clock + 1, lastrowid)
    /\ UNCHANGED <<soundings, latest, txn>>
    /\ UNCHANGED orchVars
    /\ UNCHANGED pureVars

\* a session that commits whatever happened
commit_always(committed, work, raised) == work

\* Container.session / session_scope: commit after the body, rollback when
\* the body raised
session_exit(committed, work, raised) ==
    IF raised THEN committed ELSE work

\* what another connection reads: under journal_mode=WAL the last committed
\* state (read_uncommitted acts only between connections of a shared cache,
\* which DATABASE_URL does not ask for)
Observable(st, snd, t) == <<st, snd>>

\* _finalize_download._write: the session is opened for a non-empty batch
BatchBegin ==
    /\ clock < MaxOps
    /\ ~txn.open
    /\ txn' = [open |-> TRUE, pre |-> <<stations, soundings>>,
               stations |-> stations, soundings |-> soundings,
               latest |-> latest, items |-> <<>>]
    /\ UNCHANGED <<stations, soundings, clock, latest, lastOp, lastrowid>>
    /\ UNCHANGED orchVars
    /\ UNCHANGED pureVars

\* one pass of "for item in payloads": ensure_station and upsert_sounding
\* inside the open transaction
BatchItem(sid, name, cap, payload) ==
    /\ clock < MaxOps
    /\ txn.open
    /\ txn' = [txn EXCEPT
                 !.stations = ensure_station(@, sid, name, clock + 1),
                 !.soundings = upsert_sounding(@, sid, name, cap, payload,
                                               clock + 1),
                 !.latest = Remember(@, sid, name, cap, payload, clock + 1),
                 !.items = Append(@, [station_id |-> sid, captured_at |-> cap,
                                      payload |-> payload])]
    /\ clock' = clock + 1
    /\ lastrowid' = upsert_sounding_lastrowid(txn.soundings, sid, cap,
                        ensure_station_lastrowid(txn.stations, sid, name,
                                                 clock + 1, lastrowid))
    /\ UNCHANGED <<stations, soundings, latest, lastOp>>
    /\ UNCHANGED orchVars
    /\ UNCHANGED pureVars

\* the body of the session ends (raised = FALSE) or one of its statements
\* raises (raised = TRUE); the session commits or rolls back, and closes
BatchEnd(raised) ==
    /\ txn.open
    /\ raised \/ txn.items # <<>>
    /\ LET out == session_exit(<<stations, soundings, latest>>,
                               <<txn.stations, txn.soundings, txn.latest>>,
                               raised)
       IN /\ stations' = out[1]
          /\ soundings' = out[2]
          /\ latest' = out[3]
    /\ txn' = NoTxn
    /\ lastOp' = Op(IF raised THEN "rollback" ELSE "commit", None, 0,
                    txn.items, <<txn.pre>>)
    /\ UNCHANGED <<clock, lastrowid>>
    /\ UNCHANGED orchVars
    /\ UNCHANGED pureVars

\* a read of the UI on its own connection, at any moment
Read ==
    /\ lastOp' = Op("read", None, 0, txn.open,
                    Observable(stations, soundings, txn))
    /\ UNCHANGED <<stations, soundings, clock, latest, txn, lastrowid>>
    /\ UNCHANGED orchVars
    /\ UNCHANGED pureVars

IdleOrch ==
    /\ concurrency = 1
    /\ total = 0
    /\ cancel_flag = FALSE
    /\ pc = "idle"
    /\ task = [i \in {} |-> None]
    /\ tres = [i \in {} |-> None]
    /\ sem = 0
    /\ queue = <<>>
    /\ processed = <<>>
    /\ done = 0
    /\ errors = <<>>
    /\ progress = <<>>
    /\ outcome = None
    /\ summary = None
    /\ written = {}
    /\ late = {}

EmptyStore ==
    /\ stations = EmptyFn
    /\ soundings = {}
    /\ clock = 0
    /\ latest = EmptyFn
    /\ lastOp = NoOp
    /\ txn = NoTxn
    /\ lastrowid = 0

\* no call of _retry_on_lock and no separate fetch is under way
IdleCalc ==
    /\ query = NoCall
    /\ sync = NoCall
    /\ parse = NoCall
    /\ pwv = NoCall
    /\ ensure = NoCall
    /\ dates = NoCall
    /\ ui = NoCall

IdlePure ==
    /\ retry = NoRetry
    /\ fetch = NoFetch
    /\ IdleCalc

InitStore == IdleOrch /\ EmptyStore /\ IdlePure

NextStore ==
    \/ \E sid \in StationIds, name \in Names \cup {None} :
          EnsureStation(sid, name)
    \/ \E sid \in StationIds, name \in Names, cap \in StoreInstants,
          payload \in Payloads : UpsertSounding(sid, name, cap, payload)
    \/ \E sid \in StationIds, name \in Names, cap \in StoreInstants,
          payload \in Payloads : WriteBatch(sid, name, cap, payload)
    \/ \E sid \in StationIds : DeleteStation(sid)

SpecStore == InitStore /\ [][NextStore]_vars

\* the catalogue: station lists are upserted, placeholders are ensured
NextStations ==
    \/ \E infos \in SeqsUpTo(CatalogueEntries(clock), MaxStations) :
          UpsertMany(infos)
    \/ \E sid \in StationIds, name \in Names \cup {None, ""} :
          EnsureStation(sid, name)

SpecStations == InitStore /\ [][NextStations]_vars

----------------------------------------------------------------------------
(* One run of DownloadWorker *)

\* the store an earlier run left: the sounding of instant 1 is present
EarlierRunStore ==
    /\ stations = ensure_station(EmptyFn, RunStation, "n1", 1)
    /\ soundings = upsert_sounding({}, RunStation, "n1", 1, "p1", 1)
    /\ clock = 1
    /\ latest = Remember(EmptyFn, RunStation, "n1", 1, "p1", 1)
    /\ lastOp = Op("write", RunStation, 0, 1, None)
    /\ txn = NoTxn
    /\ lastrowid = 1

Init ==
    /\ concurrency \in {ClampConcurrency(c) : c \in 0..MaxConcurrency}
    /\ total \in 0..MaxInstants
    /\ cancel_flag = FALSE
    /\ pc = "idle"
    /\ task = [i \in {} |-> None]
    /\ tres = [i \in {} |-> None]
    /\ sem = 0
    /\ queue = <<>>
    /\ processed = <<>>
    /\ done = 0
    /\ errors = <<>>
    /\ progress = <<>>
    /\ outcome = None
    /\ summary = None
    /\ written = {}
    /\ late = {}
    /\ (EmptyStore \/ EarlierRunStore)
    /\ IdlePure

Next ==
    \/ Cancel
    \/ RunEmpty
    \/ Run
    \/ LoopExit
    \/ LoopCancelled
    \/ LoopAwait
    \/ \E i \in Instants : TaskStart(i)
    \/ \E i \in Instants : WaiterResume(i)
    \/ \E i \in Instants, resp \in Responses : FetchSettle(i, resp)
    \/ ReceiveCancelled
    \/ \E wr \in {"ok", "fail"} : ReceiveResult(wr)
    \/ ReceiveOther

Spec == Init /\ [][Next]_vars

----------------------------------------------------------------------------
(* Persistence batches beside a reader *)

InitBatch == IdleOrch /\ (EmptyStore \/ EarlierRunStore) /\ IdlePure

NextBatch ==
    \/ BatchBegin
    \/ \E sid \in StationIds, cap \in StoreInstants, payload \in Payloads :
          BatchItem(sid, RunName, cap, payload)
    \/ \E raised \in BOOLEAN : BatchEnd(raised)
    \/ Read

SpecBatch == InitBatch /\ [][NextBatch]_vars

----------------------------------------------------------------------------
(* One call of _retry_on_lock, and one fetch for every response *)

InitRetry ==
    /\ IdleOrch
    /\ EmptyStore
    /\ fetch = NoFetch
    /\ IdleCalc
    /\ retry \in {RetryStart(n, d) : n \in 0..MaxRetries, d \in Delays}

NextRetry ==
    \/ \E o \in FuncOutcomes : RetryCall(o)
    \/ RetrySleep
    \/ RetryEnd

SpecRetry == InitRetry /\ [][NextRetry]_vars

InitFetch ==
    /\ IdleOrch
    /\ EmptyStore
    /\ retry = NoRetry
    /\ IdleCalc
    /\ fetch \in {[pc |-> "request", resp |-> r] : r \in FetchInputs}

NextFetch == FetchOnce

SpecFetch == InitFetch /\ [][NextFetch]_vars

----------------------------------------------------------------------------
(* Queries: SoundingRepository._filters, list and count *)

MaxLimit == 2

QueryInstants == {1, 2, 3}

\* the arguments of a query; an argument that is None is <<>>, one that is
\* given is <<value>>; station_ids is a list of ids, start and end instants
StationLists == {<<>>, <<"s1">>, <<"s2">>, <<"s1", "s2">>}

\* the store after one _write per key of K
RECURSIVE StoreOf(_)
StoreOf(K) ==
    IF K = {}
    THEN [stations |-> EmptyFn, soundings |-> {}, latest |-> EmptyFn,
          lastrowid |-> 0]
    ELSE LET k == CHOOSE x \in K : TRUE
             s == StoreOf(K \ {k})
             now == Cardinality(K)
         IN [stations |-> ensure_station(s.stations, k[1], RunName, now),
             soundings |-> upsert_sounding(s.soundings, k[1], RunName,
                                           k[2], RunPayload, now),
             latest |-> Remember(s.latest, k[1], RunName, k[2], RunPayload,
                                 now),
             lastrowid |-> upsert_sounding_lastrowid(s.soundings, k[1],
                               k[2],
                               ensure_station_lastrowid(s.stations, k[1],
                                   RunName, now, s.lastrowid))]

\* a filter in which a given station list always restricts the rows
filters_given_list(r, station_ids, start, end) ==
    /\ station_ids # <<>> => r.station_id \in Range(station_ids[1])
    /\ start # <<>> => r.captured_at >= start[1]
    /\ end # <<>> => r.captured_at <= end[1]

\* SoundingRepository._filters, as the test a row passes: a condition is
\* appended only for an argument that is truthy, so station_ids that is
\* None or an empty list adds no condition
filters(r, station_ids, start, end) ==
    /\ (station_ids # <<>> /\ station_ids[1] # <<>>)
          => r.station_id \in Range(station_ids[1])
    /\ start # <<>> => r.captured_at >= start[1]
    /\ end # <<>> => r.captured_at <= end[1]

\* ORDER BY captured_at DESC: every order of the rows in which captured_at
\* never increases; rows of equal captured_at come in any order
RECURSIVE order_by_desc(_)
order_by_desc(S) ==
    IF S = {} THEN {<<>>}
    ELSE LET top == {r \in S : \A x \in S : x.captured_at <= r.captured_at}
         IN UNION {{<<r>> \o q : q \in order_by_desc(S \ {r})} : r \in top}

\* OFFSET n LIMIT m of a sequence
offset_limit(q, n, m) ==
    IF n >= Len(q) THEN <<>>
    ELSE SubSeq(q, n + 1, IF n + m < Len(q) THEN n + m ELSE Len(q))

\* SoundingRepository.list: the possible results, one per order of ties
list(snd, station_ids, start, end, limit, offset) ==
    {offset_limit(q, IF offset < 0 THEN 0 ELSE offset, limit) :
        q \in order_by_desc({r \in snd : filters(r, station_ids, start,
                                                 end)})}

\* SoundingRepository.count
count(snd, station_ids, start, end) ==
    Cardinality({r \in snd : filters(r, station_ids, start, end)})

\* one call of count and of list with the same filter (_read_soundings)
Query(station_ids, start, end, limit, offset) ==
    /\ query.pc = "idle"
    /\ \E rows \in list(soundings, station_ids, start, end, limit, offset) :
          query' = [pc |-> "done", station_ids |-> station_ids,
                    start |-> start, end |-> end, limit |-> limit,
                    offset |-> offset, rows |-> rows,
                    count |-> count(soundings, station_ids, start, end)]
    /\ UNCHANGED <<orchVars, storeVars, retry, fetch, sync, parse, pwv,
                   ensure, dates, ui>>

\* ORDER BY Station.id over the ids of the model
StationOrder == <<"s1", "s2">>

\* the station queries of SoundingLoadWorker: None (<<>>) or a text
StationQueries == {<<>>, <<"">>, <<"s1">>, <<"S2">>, <<"n2">>, <<"zz">>}

\* query.lower()
lower(q) == IF q = "S2" THEN "s2" ELSE q

\* column ILIKE '%q%' on the ids and names of the model: text contains q
ilike(text, q) ==
    q \in (CASE text = "s1" -> {"", "s", "1", "s1"}
             [] text = "s2" -> {"", "s", "2", "s2"}
             [] text = "n1" -> {"", "n", "1", "n1"}
             [] text = "n2" -> {"", "n", "2", "n2"}
             [] OTHER -> {"", text})

\* StationRepository.search: the ids of the stations whose name or id
\* contains the query; the model holds fewer stations than its limit, and
\* the order of the ids does not matter to the IN condition they go into
search(st, q) ==
    SelectSeq(StationOrder,
              LAMBDA id : /\ id \in DOMAIN st
                          /\ (ilike(st[id].name, lower(q))
                              \/ ilike(id, lower(q))))

\* SoundingLoadWorker.run._read: the possible results, and whether
\* SoundingRepository.list was called
load_read(st, snd, station_query, limit) ==
    IF station_query # <<>> /\ station_query[1] # ""
    THEN IF search(st, station_query[1]) = <<>>
         THEN [listed |-> FALSE, rows |-> {<<>>}]
         ELSE [listed |-> TRUE,
               rows |-> list(snd, <<search(st, station_query[1])>>, <<>>,
                             <<>>, limit, 0)]
    ELSE [listed |-> TRUE, rows |-> list(snd, <<>>, <<>>, <<>>, limit, 0)]

\* one run of SoundingLoadWorker
LoadRead(station_query, limit) ==
    /\ query.pc = "idle"
    /\ \E rows \in load_read(stations, soundings, station_query, limit).rows :
          query' = [pc |-> "loaded", station_query |-> station_query,
                    limit |-> limit, rows |-> rows,
                    listed |-> load_read(stations, soundings, station_query,
                                         limit).listed]
    /\ UNCHANGED <<orchVars, storeVars, retry, fetch, sync, parse, pwv,
                   ensure, dates, ui>>


InitQuery ==
    /\ IdleOrch
    /\ IdlePure
    /\ \E K \in SUBSET (StationIds \X QueryInstants) :
          /\ stations = StoreOf(K).stations
          /\ soundings = StoreOf(K).soundings
          /\ latest = StoreOf(K).latest
          /\ lastrowid = StoreOf(K).lastrowid
          /\ clock = Cardinality(K)
    /\ lastOp = NoOp
    /\ txn = NoTxn

NextQuery ==
    \/ \E station_query \in StationQueries, limit \in 0..MaxLimit :
          LoadRead(station_query, limit)
    \/ \E station_ids \in {<<>>} \cup {<<l>> : l \in StationLists},
       start \in {<<>>} \cup {<<i>> : i \in QueryInstants},
       end \in {<<>>} \cup {<<i>> : i \in QueryInstants},
       limit \in 0..MaxLimit, offset \in -1..MaxLimit :
          Query(station_ids, start, end, limit, offset)

SpecQuery == InitQuery /\ [][NextQuery]_vars

----------------------------------------------------------------------------
(* Station sync: StationListWorker.run and MainWindow._finalize_stations *)

\* StationRepository.list_all: every row as a StationInfo, ordered by id
list_all(st) ==
    LET ids == SelectSeq(StationOrder, LAMBDA x : x \in DOMAIN st)
    IN [k \in 1..Len(ids) |->
           StationInfo(ids[k], st[ids[k]].name, st[ids[k]].coords,
                       st[ids[k]].src, <<st[ids[k]].updated_at>>)]

\* a sync that hands over the list the network returned
deliver_fetched(fetched, db_stations) == fetched

\* the list handed to the caller: loaded.emit(db_stations) in the worker,
\* self.stations = db_stations in the window
delivered_list(fetched, db_stations) == db_stations

\* the sync at its start; "worker" is StationListWorker.run, "window" is
\* _finalize_stations fed by the station thread
SyncStart(variant) ==
    [pc |-> "start", variant |-> variant, cancel |-> FALSE,
     fetched |-> <<>>, steps |-> <<>>, failed |-> <<>>, readback |-> <<>>,
     readAt |-> 0, delivered |-> <<>>, signals |-> <<>>]

\* how a run ends without a list: the signals of the worker's except and
\* finally clauses, the log line of the window
SyncEnd(s, signal) ==
    [s EXCEPT !.pc = "done",
              !.signals = IF s.variant = "worker"
                          THEN s.signals \o <<signal, "finished">>
                          ELSE Append(s.signals, signal)]

\* a check that never sees the flag
never_canceled(s) == FALSE

\* StationListWorker._check_canceled; the window has no such check
check_canceled(s) == s.variant = "worker" /\ s.cancel

\* StationListWorker.cancel from the UI thread
SyncCancel ==
    /\ sync.pc \in {"start", "fetched", "upserted", "read"}
    /\ sync.variant = "worker"
    /\ ~sync.cancel
    /\ sync' = [sync EXCEPT !.cancel = TRUE]
    /\ UNCHANGED <<orchVars, storeVars, retry, fetch, query, parse, pwv,
                   ensure, dates, ui>>

\* fetch_stations_for_datetime: it raises (transport, status other than
\* 200) or returns the list built from the response
SyncFetch(ok, infos) ==
    /\ sync.pc = "start"
    /\ sync' = IF ok
               THEN [sync EXCEPT !.pc = "fetched", !.fetched = <<infos>>,
                                 !.steps = Append(@, "fetch")]
               ELSE SyncEnd([sync EXCEPT !.steps = Append(@, "fetch"),
                                         !.failed = Append(@, "fetch")],
                            "failed")
    /\ UNCHANGED <<orchVars, storeVars, retry, fetch, query, parse, pwv,
                   ensure, dates, ui>>

\* upsert_many(stations) in a session of its own: the session commits on
\* exit, or rolls back when the statement raised
SyncUpsert(raised) ==
    /\ sync.pc = "fetched"
    /\ clock < MaxOps
    /\ ~txn.open
    /\ IF check_canceled(sync)
       THEN /\ sync' = SyncEnd(sync, "canceled")
            /\ UNCHANGED storeVars
       ELSE IF sync.variant = "window" /\ sync.fetched[1] = <<>>
       THEN /\ sync' = SyncEnd(sync, "message")
            /\ UNCHANGED storeVars
       ELSE IF raised
       THEN /\ sync' = SyncEnd([sync EXCEPT !.steps = Append(@, "upsert"),
                                            !.failed = Append(@, "upsert")],
                               "failed")
            /\ UNCHANGED storeVars
       ELSE /\ sync' = [sync EXCEPT !.pc = "upserted",
                                    !.steps = Append(@, "upsert")]
            /\ stations' = upsert_many(stations, sync.fetched[1], clock + 1)
            /\ clock' = clock + 1
            /\ lastOp' = Op("upsert_many", None, 0, sync.fetched[1],
                            upsert_many_returns(sync.fetched[1]))
            /\ lastrowid' = stations_lastrowid(stations, sync.fetched[1],
                                               clock + 1, lastrowid)
            /\ UNCHANGED <<soundings, latest, txn>>
    /\ UNCHANGED <<orchVars, retry, fetch, query, parse, pwv,
                   ensure, dates, ui>>

\* list_all() in a second session
SyncRead(raised) ==
    /\ sync.pc = "upserted"
    /\ sync' = IF check_canceled(sync) THEN SyncEnd(sync, "canceled")
               ELSE IF raised
               THEN SyncEnd([sync EXCEPT !.steps = Append(@, "read"),
                                         !.failed = Append(@, "read")],
                            "failed")
               ELSE [sync EXCEPT !.pc = "read",
                                 !.steps = Append(@, "read"),
                                 !.readback = <<list_all(stations)>>,
                                 !.readAt = clock]
    /\ UNCHANGED <<orchVars, storeVars, retry, fetch, query, parse, pwv,
                   ensure, dates, ui>>

\* loaded.emit(db_stations), or self.stations = db_stations
SyncDeliver ==
    /\ sync.pc = "read"
    /\ sync' = IF check_canceled(sync) THEN SyncEnd(sync, "canceled")
               ELSE SyncEnd([sync EXCEPT !.delivered =
                                <<delivered_list(sync.fetched[1],
                                                 sync.readback[1])>>],
                            "loaded")
    /\ UNCHANGED <<orchVars, storeVars, retry, fetch, query, parse, pwv,
                   ensure, dates, ui>>

\* the store before a sync: empty, or with the placeholder of an earlier run
InitSync ==
    /\ IdleOrch
    /\ (EmptyStore \/ EarlierRunStore)
    /\ ensure = NoCall
    /\ dates = NoCall
    /\ ui = NoCall
    /\ retry = NoRetry
    /\ fetch = NoFetch
    /\ query = NoCall
    /\ parse = NoCall
    /\ pwv = NoCall
    /\ sync \in {SyncStart(v) : v \in {"worker", "window"}}

\* the sync beside the download worker, which ensures stations
NextSync ==
    \/ SyncCancel
    \/ \E ok \in BOOLEAN,
          infos \in SeqsUpTo(CatalogueEntries(clock), MaxStations) :
             SyncFetch(ok, infos)
    \/ \E raised \in BOOLEAN : SyncUpsert(raised)
    \/ \E raised \in BOOLEAN : SyncRead(raised)
    \/ SyncDeliver
    \/ \E sid \in StationIds, name \in Names : EnsureStation(sid, name)

SpecSync == InitSync /\ [][NextSync]_vars

----------------------------------------------------------------------------
(* The table parser: _parse_sounding, _rows_to_csv and parse_csv_payload *)
(*                                                                         *)
(* A text block is the sequence of its lines (splitlines), a line the      *)
(* sequence of its tokens (strip, then split): a blank line has none.      *)
(* A float is named by its repr; float() maps a token to that name.        *)

MaxLines == 4

\* float(text): the value, or nothing when float raises ValueError.
\* "1000" and "1000.0" are two texts of one value
float(text) ==
    IF text = "1000" THEN <<"1000.0">>
    ELSE IF text \in {"1000.0", "925.0", "850.0", "500.0", "700.0", "20.0",
                      "70.0", "0.0", "-243.5", "12.09472773900661"}
    THEN <<text>>
    ELSE <<>>

\* the values of a cell: a float, a str, or None
Num(r) == [kind |-> "number", v |-> r]
Str(s) == [kind |-> "text", v |-> s]
NoneValue == [kind |-> "absent", v |-> ""]

\* _is_number
is_number(text) == float(text) # <<>>

\* "try: row[key] = float(value) except ValueError: row[key] = value"
cell(text) == IF float(text) # <<>> THEN Num(float(text)[1]) ELSE Str(text)

\* the expression of _compute_absh, or nothing when evaluating it raises:
\* at temp_c = -243.5 the quotient 17.67 * temp_c / (temp_c + 243.5) is a
\* ZeroDivisionError; the values are those CPython computes
absh_formula(relh, temp_c) ==
    IF temp_c = "-243.5" THEN <<>>
    ELSE CASE temp_c = "20.0" /\ relh = "70.0" -> <<"12.09472773900661">>
           [] temp_c = "20.0" /\ relh = "0.0" -> <<"0.0">>

\* a derived column that falls back to zero
absh_default_zero(relh, temp_c) ==
    IF relh = NoneValue \/ temp_c = NoneValue THEN Num("0.0")
    ELSE IF absh_formula(relh.v, temp_c.v) = <<>> THEN Num("0.0")
    ELSE Num(absh_formula(relh.v, temp_c.v)[1])

\* _compute_absh(relh, temp_c): None for a None argument, None when the
\* expression raises ("except Exception: return None")
compute_absh(relh, temp_c) ==
    IF relh = NoneValue \/ temp_c = NoneValue THEN NoneValue
    ELSE IF absh_formula(relh.v, temp_c.v) = <<>> THEN NoneValue
    ELSE Num(absh_formula(relh.v, temp_c.v)[1])

\* "x if isinstance(x, (int, float)) else None"
number_or_none(x) == IF x.kind = "number" THEN x ELSE NoneValue

\* dict(zip(keys, vals)): a repeated key keeps its last value, values
\* beyond the keys are dropped
dict_zip(keys, vals) ==
    LET n == IF Len(keys) < Len(vals) THEN Len(keys) ELSE Len(vals)
        last(c) == CHOOSE j \in 1..n :
                      /\ keys[j] = c
                      /\ \A i \in (j + 1)..n : keys[i] # c
    IN [c \in {keys[j] : j \in 1..n} |-> vals[last(c)]]

\* the row of a data line: the cell of every zipped token
row_of(columns_raw, parts) ==
    [c \in DOMAIN dict_zip(columns_raw, parts) |->
        cell(dict_zip(columns_raw, parts)[c])]

\* a blank line that never ends the table
blank_never_ends(header_seen) == FALSE

\* "if not stripped: if header_seen: break; continue"
blank_ends(header_seen) == header_seen

\* a header test that takes any line
any_line_is_header(header_seen, parts) == ~header_seen

\* "if not header_seen and stripped.startswith("PRES")"
is_header(header_seen, parts) ==
    ~header_seen /\ parts[1] \in {"PRES"}

\* a row test that does not look at the first token
is_row_any_first(parts, columns_raw) == Len(parts) >= Len(columns_raw)

\* the two "continue" tests of a line after the header
is_row(parts, columns_raw) ==
    /\ ~(Len(parts) < Len(columns_raw))
    /\ is_number(parts[1])

\* the loop "for line in lines" from line k on; src keeps the line number
\* of every row
RECURSIVE scan(_, _, _)
scan(lines, k, st) ==
    IF k > Len(lines) THEN st
    ELSE LET parts == lines[k]
         IN IF parts = <<>>
            THEN IF blank_ends(st.header_seen) THEN st
                 ELSE scan(lines, k + 1, st)
            ELSE IF is_header(st.header_seen, parts)
            THEN scan(lines, k + 1, [st EXCEPT !.header_seen = TRUE,
                                               !.columns_raw = parts])
            ELSE IF st.header_seen /\ is_row(parts, st.columns_raw)
            THEN scan(lines, k + 1,
                      [st EXCEPT !.rows_raw =
                                     Append(@, row_of(st.columns_raw,
                                                      parts)),
                                 !.src = Append(@, k)])
            ELSE scan(lines, k + 1, st)

\* the derived column: appended when the header has RELH and TEMP
with_absh(st) ==
    IF "RELH" \in Range(st.columns_raw) /\ "TEMP" \in Range(st.columns_raw)
    THEN [st EXCEPT
            !.columns_raw = Append(@, "ABSH"),
            !.rows_raw =
               [k \in 1..Len(st.rows_raw) |->
                   [c \in DOMAIN st.rows_raw[k] \cup {"ABSH"} |->
                       IF c = "ABSH"
                       THEN compute_absh(
                                number_or_none(st.rows_raw[k]["RELH"]),
                                number_or_none(st.rows_raw[k]["TEMP"]))
                       ELSE st.rows_raw[k][c]]]]
    ELSE st

\* label_map over _COLUMN_UNITS: "base,unit", or the base without a unit
label(base) ==
    CASE base = "PRES" -> "PRES,hPa"
      [] base = "HGHT" -> "HGHT,m"
      [] base = "TEMP" -> "TEMP,C"
      [] base = "RELH" -> "RELH,%"
      [] base = "ABSH" -> "ABSH,g/m3"
      [] OTHER -> base

\* rows_labeled: {label_map[base]: row.get(base) for base in columns_raw}
labeled_row(columns_raw, row) ==
    [l \in {label(c) : c \in Range(columns_raw)} |->
        LET c == CHOOSE b \in Range(columns_raw) : label(b) = l
        IN IF c \in DOMAIN row THEN row[c] ELSE NoneValue]

\* csv.writer: None is written as the empty field, a float by its repr, a
\* str as it is; a field holding the delimiter is quoted
csv_field(value) ==
    [quoted |-> value.v \in {"a;b"}, s |-> value.v]

\* _rows_to_csv: the header line, then row.get(col, "") per column
rows_to_csv(columns, rows) ==
    <<[j \in 1..Len(columns) |-> csv_field(Str(columns[j]))]>>
    \o [k \in 1..Len(rows) |->
           [j \in 1..Len(columns) |->
               IF columns[j] \in DOMAIN rows[k]
               THEN csv_field(rows[k][columns[j]])
               ELSE csv_field(Str(""))]]

\* _parse_sounding(text_block): the payload and the CSV text
parse_sounding(text_block) ==
    LET st == with_absh(scan(text_block, 1,
                             [header_seen |-> FALSE, columns_raw |-> <<>>,
                              rows_raw |-> <<>>, src |-> <<>>]))
        columns_labeled == [j \in 1..Len(st.columns_raw) |->
                               label(st.columns_raw[j])]
        rows_labeled == [k \in 1..Len(st.rows_raw) |->
                            labeled_row(st.columns_raw, st.rows_raw[k])]
    IN [columns |-> columns_labeled, rows |-> rows_labeled,
        raw |-> text_block,
        csv |-> rows_to_csv(columns_labeled, rows_labeled),
        src |-> st.src, header_seen |-> st.header_seen]

\* csv.reader on one line: a quoted field is one field, an unquoted text
\* is cut at every delimiter
csv_read_field(w) ==
    IF w.quoted THEN <<w.s>>
    ELSE IF w.s = "a;b" THEN <<"a", "b">>
    ELSE <<w.s>>

RECURSIVE csv_read_line(_)
csv_read_line(ws) ==
    IF ws = <<>> THEN <<>>
    ELSE csv_read_field(Head(ws)) \o csv_read_line(Tail(ws))

\* the cell of parse_csv_payload: "" stays "", a float text becomes the
\* float, any other text stays
csv_cell(val) ==
    IF val = "" THEN Str("")
    ELSE IF float(val) # <<>> THEN Num(float(val)[1])
    ELSE Str(val)

\* parse_csv_payload(text)
parse_csv_payload(text) ==
    LET rows_iter == [k \in 1..Len(text) |-> csv_read_line(text[k])]
    IN IF rows_iter = <<>> THEN [columns |-> <<>>, rows |-> <<>>]
       ELSE [columns |-> rows_iter[1],
             rows |-> [k \in 1..(Len(rows_iter) - 1) |->
                          [c \in DOMAIN dict_zip(rows_iter[1],
                                                 rows_iter[k + 1]) |->
                              csv_cell(dict_zip(rows_iter[1],
                                                rows_iter[k + 1])[c])]]]

\* the lines of the text blocks; the first is a blank line
Lines ==
    {<<>>,
     <<"PRES", "TEMP", "RELH">>,
     <<"PRES", "HGHT">>,
     <<"hPa", "C", "%">>,
     <<"1000", "20.0", "70.0">>,
     <<"925.0", "a;b", "70.0">>,
     <<"850.0", "-243.5", "70.0">>,
     <<"500.0", "20.0", "0.0">>,
     <<"700.0">>}

\* _parse_sounding on the text block (fetch_sounding)
Parse ==
    /\ parse.pc = "input"
    /\ parse' = [pc |-> "parsed", text |-> parse.text,
                 out |-> parse_sounding(parse.text)]
    /\ UNCHANGED <<orchVars, storeVars, retry, fetch, query, sync, pwv,
                   ensure, dates, ui>>

\* SoundingRecord.parsed_payload on the stored CSV text
Reparse ==
    /\ parse.pc = "parsed"
    /\ parse' = [pc |-> "reparsed", text |-> parse.text, out |-> parse.out,
                 re |-> parse_csv_payload(parse.out.csv)]
    /\ UNCHANGED <<orchVars, storeVars, retry, fetch, query, sync, pwv,
                   ensure, dates, ui>>

InitParse ==
    /\ IdleOrch
    /\ EmptyStore
    /\ ensure = NoCall
    /\ dates = NoCall
    /\ ui = NoCall
    /\ retry = NoRetry
    /\ fetch = NoFetch
    /\ query = NoCall
    /\ sync = NoCall
    /\ pwv = NoCall
    /\ parse \in {[pc |-> "input", text |-> t] : t \in SeqsUpTo(Lines, MaxLines)}

NextParse == Parse \/ Reparse

SpecParse == InitParse /\ [][NextParse]_vars

----------------------------------------------------------------------------
(* The integrator: MainWindow._compute_pwv_for_record *)
(*                                                                         *)
(* The payload is the one parse_csv_payload returns: a cell is a float     *)
(* (named by its repr, "nan" among them) or a str, "" for an empty field.  *)

MaxRows == 3

\* str(col).split(",", 1)[0].strip(): the label without its unit
base_name(col) ==
    CASE col = "HGHT,m" -> "HGHT"
      [] col = "ABSH,g/m3" -> "ABSH"
      [] col = "PRES,hPa" -> "PRES"
      [] OTHER -> col

\* col_map.get(base): the label of the last column of that base name
col_map_get(columns, base) ==
    LET J == {j \in 1..Len(columns) : base_name(columns[j]) = base}
    IN IF J = {} THEN <<>>
       ELSE <<columns[CHOOSE j \in J : \A i \in J : i <= j]>>

\* a float of the integrator: nan, or a number
Nan == [nan |-> TRUE, n |-> 0]
Finite(n) == [nan |-> FALSE, n |-> n]
float_of_repr(r) ==
    CASE r = "nan" -> Nan
      [] r = "1.0" -> Finite(1)
      [] r = "4.0" -> Finite(4)
      [] r = "10.0" -> Finite(10)
      [] r = "30.0" -> Finite(30)

\* float(row.get(col)): nothing on TypeError (no such key: None) and on
\* ValueError (a str that is no number)
to_float(row, col) ==
    IF col \notin DOMAIN row THEN <<>>
    ELSE IF row[col].kind = "number" THEN <<float_of_repr(row[col].v)>>
    ELSE IF row[col].kind = "text" /\ float(row[col].v) # <<>>
    THEN <<float_of_repr(float(row[col].v)[1])>>
    ELSE <<>>

\* "h_val < min_height" on floats: a comparison with nan is False
less_than(x, m) == ~x.nan /\ x.n < m

\* "x <= y" on floats, as list.sort compares the keys
not_greater(x, y) == ~x.nan /\ ~y.nan /\ x.n <= y.n

\* the loop that fills samples, in row order
RECURSIVE collect(_, _, _, _)
collect(rows, h_col, absh_col, min_height) ==
    IF rows = <<>> THEN <<>>
    ELSE LET h == to_float(Head(rows), h_col)
             a == to_float(Head(rows), absh_col)
             rest == collect(Tail(rows), h_col, absh_col, min_height)
         IN IF h = <<>> \/ a = <<>> THEN rest
            ELSE IF less_than(h[1], min_height) THEN rest
            ELSE <<[h |-> h[1], a |-> a[1]]>> \o rest

\* samples.sort(key=lambda x: x[0]): a stable sort on the height alone;
\* samples of equal height keep the order of the rows
RECURSIVE sort_by_height(_)
sort_by_height(s) ==
    IF Len(s) <= 1 THEN s
    ELSE LET front == sort_by_height(SubSeq(s, 1, Len(s) - 1))
             x == s[Len(s)]
             P == {j \in 1..Len(front) : not_greater(front[j].h, x.h)}
             p == IF P = {} THEN 0
                  ELSE CHOOSE j \in P : \A i \in P : i <= j
         IN SubSeq(front, 1, p) \o <<x>> \o SubSeq(front, p + 1, Len(front))

\* twice np.trapezoid(absh, heights): the sum of (h[i+1] - h[i]) *
\* (a[i] + a[i+1])
RECURSIVE trapezoid2(_)
trapezoid2(s) ==
    IF Len(s) <= 1 THEN 0
    ELSE (s[2].h.n - s[1].h.n) * (s[1].a.n + s[2].a.n) + trapezoid2(Tail(s))

\* what the integrator returns: None, or the float num / den (nan when a
\* height or a density is nan)
NoneResult == [kind |-> "none", nan |-> FALSE, num |-> 0, den |-> 1]
FloatResult(nan, num, den) ==
    [kind |-> "number", nan |-> nan, num |-> IF nan THEN 0 ELSE num,
     den |-> IF nan THEN 1 ELSE den]

\* _compute_pwv_for_record on the parsed payload
compute_pwv_for_record(columns, rows, min_height) ==
    IF columns = <<>> \/ rows = <<>> THEN NoneResult
    ELSE LET h_col == col_map_get(columns, "HGHT")
             absh_col == col_map_get(columns, "ABSH")
         IN IF h_col = <<>> \/ absh_col = <<>> THEN NoneResult
            ELSE LET samples == collect(rows, h_col[1], absh_col[1],
                                        min_height)
                     sorted == sort_by_height(samples)
                 IN IF Len(samples) < 2 THEN NoneResult
                    ELSE FloatResult(
                            \E k \in 1..Len(sorted) :
                               sorted[k].h.nan \/ sorted[k].a.nan,
                            trapezoid2(sorted), 2 * 1000)

\* the payloads of the integrator: the columns, and rows of a height cell
\* and a density cell
PwvColumns ==
    {<<"HGHT,m", "ABSH,g/m3">>, <<"PRES,hPa", "ABSH,g/m3">>, <<"HGHT,m">>}
HeightCells == {Num("10.0"), Num("30.0"), Num("nan"), Str("")}
AbshCells == {Num("1.0"), Num("4.0"), Str("")}
Thresholds == {10, 30}

PwvRow(columns, h, a) ==
    [c \in Range(columns) |-> IF base_name(c) = "ABSH" THEN a ELSE h]

Integrate ==
    /\ pwv.pc = "input"
    /\ pwv' = [pc |-> "done", columns |-> pwv.columns, rows |-> pwv.rows,
               min_height |-> pwv.min_height,
               result |-> compute_pwv_for_record(pwv.columns, pwv.rows,
                                                 pwv.min_height)]
    /\ UNCHANGED <<orchVars, storeVars, retry, fetch, query, sync, parse,
                   ensure, dates, ui>>

InitPwv ==
    /\ IdleOrch
    /\ EmptyStore
    /\ ensure = NoCall
    /\ dates = NoCall
    /\ ui = NoCall
    /\ retry = NoRetry
    /\ fetch = NoFetch
    /\ query = NoCall
    /\ sync = NoCall
    /\ parse = NoCall
    /\ \E columns \in PwvColumns, m \in Thresholds :
          pwv \in {[pc |-> "input", columns |-> columns, rows |-> rows,
                    min_height |-> m] :
                      rows \in SeqsUpTo({PwvRow(columns, h, a) :
                                            h \in HeightCells,
                                            a \in AbshCells}, MaxRows)}

NextPwv == Integrate

SpecPwv == InitPwv /\ [][NextPwv]_vars

----------------------------------------------------------------------------
(* One run of DownloadWorker under the scheduling of the event loop *)

MaxLive == 2

\* a step of the event loop of run(): it runs whatever is ready, the
\* orchestrator or a task that does not wait for the network; the storage
\* call inside ReceiveResult returns
EventLoop ==
    \/ RunEmpty
    \/ Run
    \/ LoopExit
    \/ LoopCancelled
    \/ LoopAwait
    \/ \E i \in Instants : TaskStart(i)
    \/ \E i \in Instants : WaiterResume(i)
    \/ ReceiveCancelled
    \/ \E wr \in {"ok", "fail"} : ReceiveResult(wr)
    \/ ReceiveOther

\* the request of task i settles: a response, an error, or one of the
\* timeouts of build_http_client
Settles(i) == \E resp \in Responses : FetchSettle(i, resp)

InitLive ==
    /\ Init
    /\ total <= MaxLive

SpecLive ==
    /\ InitLive
    /\ [][Next]_vars
    /\ WF_vars(EventLoop)
    /\ \A i \in 1..MaxLive : WF_vars(Settles(i))

----------------------------------------------------------------------------
(* One sequential run of DownloadWorker over more instants than three *)

MaxTail == 4

\* DownloadWorker(station_id, datetimes, ..., concurrency=1) on an empty
\* store, with up to MaxTail datetimes
InitTail ==
    /\ concurrency = ClampConcurrency(1)
    /\ total \in 0..MaxTail
    /\ cancel_flag = FALSE
    /\ pc = "idle"
    /\ task = [i \in {} |-> None]
    /\ tres = [i \in {} |-> None]
    /\ sem = 0
    /\ queue = <<>>
    /\ processed = <<>>
    /\ done = 0
    /\ errors = <<>>
    /\ progress = <<>>
    /\ outcome = None
    /\ summary = None
    /\ written = {}
    /\ late = {}
    /\ EmptyStore
    /\ IdlePure

NextTail ==
    \/ Cancel
    \/ RunEmpty
    \/ Run
    \/ LoopExit
    \/ LoopCancelled
    \/ LoopAwait
    \/ \E i \in 1..MaxTail : TaskStart(i)
    \/ \E i \in 1..MaxTail : WaiterResume(i)
    \/ \E i \in 1..MaxTail, resp \in Responses : FetchSettle(i, resp)
    \/ ReceiveCancelled
    \/ \E wr \in {"ok", "fail"} : ReceiveResult(wr)
    \/ ReceiveOther

SpecTail == InitTail /\ [][NextTail]_vars

----------------------------------------------------------------------------
(* ensure_station step by step, beside the station sync *)

\* the write of ensure_station, decided by what its lookup returned:
\* "if existing: return existing", else upsert_many([info]) on the table
\* as it is at the time of the statement
ensure_write(st, existing, id, name, now) ==
    IF existing # {} THEN st
    ELSE upsert_many(st, <<Placeholder(id, name, now)>>, now)

\* "existing = self.get_by_id(station_id)": the SELECT opens no
\* transaction on the connection, so other sessions commit after it
EnsureLookup(sid, name) ==
    /\ ensure.pc \in {"idle", "done"}
    /\ clock < MaxOps
    /\ ensure' = [pc |-> "looked", id |-> sid, name |-> name,
                  existing |-> get_by_id(stations, sid)]
    /\ UNCHANGED <<orchVars, storeVars, retry, fetch, query, sync, parse,
                   pwv, dates, ui>>

\* the rest of ensure_station, and the commit of its session
EnsureWrite ==
    /\ ensure.pc = "looked"
    /\ clock < MaxOps
    /\ ~txn.open
    /\ stations' = ensure_write(stations, ensure.existing, ensure.id,
                                ensure.name, clock + 1)
    /\ clock' = clock + 1
    /\ lastOp' = Op("ensure", ensure.id, 0, ensure.name,
                    IF ensure.existing # {}
                    THEN LET row == CHOOSE x \in ensure.existing : TRUE
                         IN StationInfo(ensure.id, row.name, row.coords,
                                        row.src, <<row.updated_at>>)
                    ELSE Placeholder(ensure.id, ensure.name, clock + 1))
    /\ lastrowid' = IF ensure.existing # {} THEN lastrowid
                    ELSE stations_lastrowid(stations,
                             <<Placeholder(ensure.id, ensure.name,
                                           clock + 1)>>,
                             clock + 1, lastrowid)
    /\ ensure' = [ensure EXCEPT !.pc = "done"]
    /\ UNCHANGED <<soundings, latest, txn>>
    /\ UNCHANGED <<orchVars, retry, fetch, query, sync, parse, pwv, dates,
                   ui>>

\* the download worker ensures stations while the station sync upserts
\* the catalogue
NextEnsure ==
    \/ \E sid \in StationIds, name \in Names \cup {None} :
          EnsureLookup(sid, name)
    \/ EnsureWrite
    \/ \E infos \in SeqsUpTo(CatalogueEntries(clock), MaxStations) :
          UpsertMany(infos)

SpecEnsure == InitStore /\ [][NextEnsure]_vars

----------------------------------------------------------------------------
(* The target instants: build_datetimes of utils.py *)

\* instants are whole hours counted from datetime.min; MaxHour is the last
\* hour below datetime.max, beyond which datetime + timedelta raises
MaxHour == 5
MaxStep == 3

\* what a call yields: the list it returns, or the exception it raises
DatesList(q) == [kind |-> "list", list |-> q]
DatesError(type) == [kind |-> type, list |-> <<>>]

\* the while loop: "result.append(current); current += timedelta(...)"
RECURSIVE dates_loop(_, _, _, _)
dates_loop(current, end, step_hours, result) ==
    IF ~(current <= end) THEN DatesList(result)
    ELSE IF current + step_hours > MaxHour THEN DatesError("OverflowError")
    ELSE dates_loop(current + step_hours, end, step_hours,
                    Append(result, current))

\* build_datetimes(start, end, step_hours)
build_datetimes(start, end, step_hours) ==
    IF step_hours <= 0 THEN DatesError("ValueError")
    ELSE IF start > end THEN DatesError("ValueError")
    ELSE dates_loop(start, end, step_hours, <<>>)

\* one call of build_datetimes
BuildDatetimes ==
    /\ dates.pc = "input"
    /\ dates' = [dates EXCEPT !.pc = "done",
                              !.result = build_datetimes(dates.start,
                                                         dates.end,
                                                         dates.step_hours)]
    /\ UNCHANGED <<orchVars, storeVars, retry, fetch, query, sync, parse,
                   pwv, ensure, ui>>

InitDates ==
    /\ IdleOrch
    /\ EmptyStore
    /\ retry = NoRetry
    /\ fetch = NoFetch
    /\ query = NoCall
    /\ sync = NoCall
    /\ parse = NoCall
    /\ pwv = NoCall
    /\ ensure = NoCall
    /\ ui = NoCall
    /\ dates \in {[pc |-> "input", start |-> s, end |-> e, step_hours |-> h,
                   result |-> DatesList(<<>>)] :
                     s \in 0..MaxHour, e \in 0..MaxHour, h \in -1..MaxStep}

NextDates == BuildDatetimes

SpecDates == InitDates /\ [][NextDates]_vars

----------------------------------------------------------------------------
(* The download controls of MainWindow, its download threads and the
   shared accumulator of ui/state.py *)

MaxDownloads == 2
MaxResults == 1

\* the signals of a download thread, queued to the UI thread
Signal(name, k) == [signal |-> name, from |-> k]

\* a fetched result that thread k added as its n-th
Result(k, n) == [from |-> k, n |-> n]

\* MainWindow after __init__: download_thread is None (0), no thread was
\* started, the accumulator is empty, the UI thread is in its event loop
WindowReady ==
    [pc |-> "ready", download_thread |-> 0, handled |-> FALSE,
     enabled |-> TRUE, thread |-> <<>>, terminated |-> {}, added |-> <<>>,
     events |-> <<>>, acc |-> <<>>, drained |-> <<>>, by |-> Signal("", 0),
     finalizes |-> <<>>]

\* the session of _finalize_download._write: ensure_station and
\* upsert_sounding for every payload, in list order
RECURSIVE write_payloads(_, _, _)
write_payloads(s, payloads, now) ==
    IF payloads = <<>> THEN s
    ELSE LET cap == Head(payloads).n
         IN write_payloads(
                [stations |-> ensure_station(s.stations, RunStation,
                                             RunName, now),
                 soundings |-> upsert_sounding(s.soundings, RunStation,
                                               RunName, cap, RunPayload,
                                               now),
                 latest |-> Remember(s.latest, RunStation, RunName, cap,
                                     RunPayload, now),
                 lastrowid |-> upsert_sounding_lastrowid(s.soundings,
                                   RunStation, cap,
                                   ensure_station_lastrowid(s.stations,
                                       RunStation, RunName, now,
                                       s.lastrowid))],
                Tail(payloads), now)

\* "if self._download_handled: return"
already_handled(flag) == flag

\* drain_soundings: "_soundings.clear()"
clear_accumulated(acc) == <<>>

\* start_download from the button or the menu; valid says whether the
\* station resolved and build_datetimes returned
StartDownload(valid) ==
    /\ ui.pc = "ready"
    /\ Len(ui.thread) < MaxDownloads
    /\ ui' = IF ui.download_thread # 0 \/ ~valid THEN ui
             ELSE [ui EXCEPT !.download_thread = Len(ui.thread) + 1,
                             !.handled = FALSE,
                             !.enabled = FALSE,
                             !.thread = Append(@, "running"),
                             !.added = Append(@, 0)]
    /\ UNCHANGED <<orchVars, storeVars, retry, fetch, query, sync, parse,
                   pwv, ensure, dates>>

\* cancel_download: download_thread.terminate()
CancelDownload ==
    /\ ui.pc = "ready"
    /\ ui.download_thread # 0
    /\ ui' = [ui EXCEPT !.terminated = @ \cup {ui.download_thread}]
    /\ UNCHANGED <<orchVars, storeVars, retry, fetch, query, sync, parse,
                   pwv, ensure, dates>>

\* a running download thread hands a fetched result to add_sounding
ThreadAdd(k) ==
    /\ ui.pc # "idle"
    /\ k \in 1..Len(ui.thread)
    /\ ui.thread[k] = "running"
    /\ ui.added[k] < MaxResults
    /\ ui' = [ui EXCEPT !.added[k] = @ + 1,
                        !.acc = Append(@, Result(k, ui.added[k] + 1))]
    /\ UNCHANGED <<orchVars, storeVars, retry, fetch, query, sync, parse,
                   pwv, ensure, dates>>

\* the thread emits done(success, message) at the end of its work
ThreadDone(k) ==
    /\ ui.pc # "idle"
    /\ k \in 1..Len(ui.thread)
    /\ ui.thread[k] = "running"
    /\ ui' = [ui EXCEPT !.thread[k] = "emitted",
                        !.events = Append(@, Signal("done", k))]
    /\ UNCHANGED <<orchVars, storeVars, retry, fetch, query, sync, parse,
                   pwv, ensure, dates>>

\* the thread ends, after its run() returned or because terminate() killed
\* it: QThread emits finished
ThreadExit(k) ==
    /\ ui.pc # "idle"
    /\ k \in 1..Len(ui.thread)
    /\ \/ ui.thread[k] = "emitted"
       \/ ui.thread[k] = "running" /\ k \in ui.terminated
    /\ ui' = [ui EXCEPT !.thread[k] = "exited",
                        !.events = Append(@, Signal("finished", k))]
    /\ UNCHANGED <<orchVars, storeVars, retry, fetch, query, sync, parse,
                   pwv, ensure, dates>>

\* the UI thread takes the next queued signal: _on_download_done or
\* _on_download_finished up to "drained = list(_soundings)" of
\* drain_soundings
Deliver ==
    /\ ui.pc = "ready"
    /\ ui.events # <<>>
    /\ ui' = IF already_handled(ui.handled)
             THEN [ui EXCEPT !.events = Tail(@)]
             ELSE [ui EXCEPT !.events = Tail(@),
                             !.handled = TRUE,
                             !.by = Head(ui.events),
                             !.drained = ui.acc,
                             !.pc = "draining"]
    /\ UNCHANGED <<orchVars, storeVars, retry, fetch, query, sync, parse,
                   pwv, ensure, dates>>

\* the second statement of drain_soundings
DrainClear ==
    /\ ui.pc = "draining"
    /\ ui' = [ui EXCEPT !.acc = clear_accumulated(@), !.pc = "writing"]
    /\ UNCHANGED <<orchVars, storeVars, retry, fetch, query, sync, parse,
                   pwv, ensure, dates>>

\* the rest of _finalize_download: the batch write of a non-empty list,
\* which commits (wr = "ok") or raises after its retries, then the
\* controls and download_thread = None
FinalizeReturn(wr) ==
    /\ ui.pc = "writing"
    /\ ui.drained = <<>> => wr = "ok"
    /\ LET saved == ui.drained # <<>> /\ wr = "ok"
           s == write_payloads([stations |-> stations,
                                soundings |-> soundings,
                                latest |-> latest,
                                lastrowid |-> lastrowid],
                               ui.drained, clock + 1)
       IN /\ ui' = [ui EXCEPT !.pc = "ready",
                              !.enabled = TRUE,
                              !.download_thread = 0,
                              !.drained = <<>>,
                              !.finalizes =
                                  Append(@, [download |-> ui.download_thread,
                                             by |-> ui.by,
                                             payloads |-> ui.drained,
                                             saved |-> saved,
                                             left |-> ui.acc])]
          /\ IF saved
             THEN /\ stations' = s.stations
                  /\ soundings' = s.soundings
                  /\ latest' = s.latest
                  /\ lastrowid' = s.lastrowid
                  /\ clock' = clock + 1
                  /\ lastOp' = Op("batch", RunStation, 0, ui.drained, None)
                  /\ txn' = txn
             ELSE UNCHANGED storeVars
    /\ UNCHANGED <<orchVars, retry, fetch, query, sync, parse, pwv, ensure,
                   dates>>

InitWindow ==
    /\ IdleOrch
    /\ EmptyStore
    /\ retry = NoRetry
    /\ fetch = NoFetch
    /\ query = NoCall
    /\ sync = NoCall
    /\ parse = NoCall
    /\ pwv = NoCall
    /\ ensure = NoCall
    /\ dates = NoCall
    /\ ui = WindowReady

NextWindow ==
    \/ \E valid \in BOOLEAN : StartDownload(valid)
    \/ CancelDownload
    \/ \E k \in 1..MaxDownloads : ThreadAdd(k)
    \/ \E k \in 1..MaxDownloads : ThreadDone(k)
    \/ \E k \in 1..MaxDownloads : ThreadExit(k)
    \/ Deliver
    \/ DrainClear
    \/ \E wr \in {"ok", "fail"} : FinalizeReturn(wr)

SpecWindow == InitWindow /\ [][NextWindow]_vars

----------------------------------------------------------------------------
(* Claims about the run of DownloadWorker (checked under Spec) *)

Unsettled == {"created", "waiting", "woken", "fetching"}
Received == Range(processed)
RunRows(i) == {r \in RowsOf(soundings, RunStation, i) :
                  r.payload = RunPayload /\ r.station_name = RunName}

\* C1: at every moment the number of fetches that have sent their request
\* and have not settled is at most the concurrency limit.
C1_InFlightBounded == Cardinality(InFlight) <= concurrency

\* C1 witness: the limit is reached while another task waits for a permit.
C1_Witness ==
    /\ concurrency = MaxConcurrency
    /\ Cardinality(InFlight) = concurrency
    /\ Waiting # {}

\* C2: every received completion, whatever its outcome, adds exactly one to
\* done and emits one progress report: the reports are 1, 2, ... without gap
\* or repetition, and a run that is not cancelled ends with the report
\* "total" emitted once, as the last one.
C2_ProgressCounts ==
    /\ done = Len(processed)
    /\ Len(progress) = Len(processed)
    /\ \A k \in 1..Len(progress) : progress[k] = k
    /\ outcome \in {"completed", "failed"} => Len(progress) = total

\* C2 witness: a finished, uncancelled run of several instants that saw a
\* result, a 404 and an error.
C2_Witness ==
    /\ outcome = "failed"
    /\ total = MaxInstants
    /\ \E i, j, k \in Received :
          /\ tres[i] = "result"
          /\ tres[j] = "nodata"
          /\ tres[k] \in ItemErrors

\* C3 (as claimed): once a fetch that failed at the transport level has been
\* received, the run is over: it ended Failed and no task is left
\* outstanding, so no further instant is processed.
C3_TransportAborts ==
    (\E i \in Received : tres[i] = "transport")
        => /\ pc = "finished"
           /\ outcome = "failed"
           /\ \A j \in DOMAIN task : task[j] \notin Unsettled

\* C4: a received per-item failure (HTTP status other than 404, missing
\* data block) is recorded in errors, leaves no row of this run for its
\* instant, and does not end the run: a run that ends Completed or Failed
\* has received every instant.
C4_ItemFailureIsolated ==
    /\ \A i \in Received :
          tres[i] \in {"http_error", "no_pre"}
              => /\ i \in Range(errors)
                 /\ i \notin written
                 /\ RunRows(i) = {}
    /\ (outcome \in {"completed", "failed"} /\ total > 0)
          => Received = 1..total

\* C4 witness: an instant received after a per-item failure was stored.
C4_Witness ==
    \E k, l \in 1..Len(processed) :
        /\ k < l
        /\ tres[processed[k]] \in {"http_error", "no_pre"}
        /\ RunRows(processed[l]) # {}

\* C5 (as claimed): with the flag set, no task starts a request.
C5_NoStartAfterCancel ==
    [][cancel_flag =>
          \A i \in DOMAIN task' :
              task'[i] = "fetching"
                  => (i \in DOMAIN task /\ task[i] = "fetching")]_vars

\* C6 (as claimed): a result whose fetch settles after the flag was set is
\* neither counted as done nor persisted.
C6_NothingAfterCancel ==
    \A i \in late :
        tres[i] = "result" => (i \notin Received /\ RunRows(i) = {})

\* C7 (as claimed): a task sends its request only with the flag clear,
\* returns its response only with the flag clear, and is never stopped from
\* outside while it waits for a permit or for its response.
C7_FlagOnly ==
    [][\A i \in DOMAIN task :
          i \in DOMAIN task' =>
              /\ (task[i] # "fetching" /\ task'[i] = "fetching")
                    => ~cancel_flag
              /\ (task[i] = "fetching" /\ task'[i] = "done")
                    => ~cancel_flag
              /\ (task[i] \in {"waiting", "woken", "fetching"})
                    => task'[i] # "cancelled"]_vars

NotFound == {fetch_sounding([status |-> 404, pre |-> p]) : p \in BOOLEAN}

\* C13: a received fetch that was answered with 404 is counted and reported
\* like every other completion, is not recorded as an error and leaves no
\* row; a run that is not cancelled and in which every instant was answered
\* with 404 ends Completed without having written anything.
C13_NotFoundIsNoData ==
    /\ \A k \in 1..Len(processed) :
          tres[processed[k]] \in NotFound
              => /\ k <= Len(progress) /\ progress[k] = k
                 /\ processed[k] \notin Range(errors)
                 /\ processed[k] \notin written
                 /\ RunRows(processed[k]) = {}
    /\ (/\ outcome \in {"completed", "failed"}
        /\ total > 0
        /\ \A i \in 1..total : tres[i] \in NotFound)
          => /\ outcome = "completed"
             /\ errors = <<>>
             /\ written = {}

\* C13 witness: a run of several instants, all answered with 404, ended
\* Completed after reporting progress for each of them.
C13_Witness ==
    /\ outcome = "completed"
    /\ total = MaxInstants
    /\ \A i \in 1..total : tres[i] = "nodata"
    /\ Len(progress) = total

\* C15: a run is Idle, then Running, then ends with exactly one of
\* Completed, Cancelled and Failed: the outcome is reported when the run
\* reaches its end and not before, by then no task is left that could still
\* fetch, and from then on the outcome, the progress reports, the tasks and
\* the store stay as they are.
C15_Ended ==
    /\ outcome \in {None, "completed", "cancelled", "failed"}
    /\ (pc = "finished") <=> (outcome # None)
    /\ pc = "idle" => (progress = <<>> /\ DOMAIN task = {})
    /\ pc = "finished" => \A j \in DOMAIN task : task[j] \notin Unsettled

C15_Step ==
    /\ pc = "idle" => pc' \in {"idle", "for", "finished"}
    /\ outcome' # outcome => (outcome = None /\ pc # "finished")
    /\ pc = "finished"
          => /\ pc' = "finished"
             /\ UNCHANGED <<outcome, progress, done, task, tres, processed,
                            written, stations, soundings>>

C15_OneTerminalOutcome == []C15_Ended /\ [][C15_Step]_vars

\* C15 witness: a run ended Cancelled after it had received a completion
\* and while other tasks were outstanding, which are now cancelled.
C15_Witness ==
    /\ pc = "finished"
    /\ outcome = "cancelled"
    /\ Received # {}
    /\ \E j \in DOMAIN task : task[j] = "cancelled"

\* C17: the store changes only in a step in which the orchestrator receives
\* the completion of a task that returned a result; that step is no step of
\* a task and it is one write.
C17_Step ==
    (soundings' # soundings \/ stations' # stations)
        => /\ task' = task
           /\ tres' = tres
           /\ Len(processed') = Len(processed) + 1
           /\ LET i == processed'[Len(processed')] IN
                 /\ task[i] = "done"
                 /\ tres[i] = "result"
                 /\ written' = written \cup {i}
           /\ clock' = clock + 1

C17_OnlyOrchestratorWrites == [][C17_Step]_vars

\* C17 witness: a result was written while the request of another task was
\* under way.
C17_Witness ==
    /\ written # {}
    /\ InFlight # {}
    /\ \E i \in written : RunRows(i) # {}

----------------------------------------------------------------------------
(* Claims about the store (checked under SpecStore) *)

\* C9: for every key that was upserted the store holds exactly one row,
\* with the payload and station name of the most recent upsert of that key
\* and downloaded_at set by it; there is no other row and no identifier is
\* used twice.
C9_OneRowPerKey ==
    /\ \A k \in DOMAIN latest :
          /\ Cardinality(RowsOf(soundings, k[1], k[2])) = 1
          /\ \A r \in RowsOf(soundings, k[1], k[2]) :
                /\ r.payload = latest[k].payload
                /\ r.station_name = latest[k].station_name
                /\ r.downloaded_at = latest[k].at
    /\ \A r \in soundings : <<r.station_id, r.captured_at>> \in DOMAIN latest
    /\ \A r, q \in soundings : r.id = q.id => r = q

\* C9 witness: a key was upserted again with another payload, beside
\* another key.
C9_Witness ==
    /\ Cardinality(soundings) >= 2
    /\ \E k \in DOMAIN latest : latest[k].n >= 2 /\ latest[k].payload = "p2"

\* C10: a sounding never refers to an absent station, and the step that
\* deletes a station removes exactly the soundings of that station.
C10_FkHolds == \A r \in soundings : r.station_id \in DOMAIN stations

C10_DeleteFrame ==
    \A d \in DOMAIN stations :
        d \notin DOMAIN stations'
            => soundings' = {r \in soundings : r.station_id # d}

C10_CascadeDelete == []C10_FkHolds /\ [][C10_DeleteFrame]_vars

\* C10 witness: a station with soundings was deleted and the soundings of
\* another station are still there.
C10_Witness ==
    /\ lastOp.kind = "delete"
    /\ lastOp.removed >= 1
    /\ soundings # {}

----------------------------------------------------------------------------
(* Claims about the lock-retry wrapper (checked under SpecRetry) *)

\* the invocations of func() so far
Attempts == IF retry.pc = "idle" THEN <<>> ELSE retry.history

\* C11 (as claimed): an invocation that failed for any reason other than a
\* lock of the store is the last one: its exception reaches the caller at
\* once, and the wrapper neither waits nor invokes the operation again.
C11_RetriesOnlyLock ==
    \A k \in 1..Len(Attempts) :
        (Attempts[k].type # "return" /\ Attempts[k].cause # "lock")
            => /\ k = Len(Attempts)
               /\ retry.pc = "raised"
               /\ retry.result = <<Attempts[k]>>
               /\ Len(retry.slept) = k - 1

\* C12: the operation is invoked at most "retries" times; a successful
\* invocation is the last one and its value is what the wrapper returns;
\* the k-th wait lasts delay*k and precedes invocation k+1; and when all
\* "retries" invocations failed with a lock error the wrapper raises the
\* last of them.
C12_BoundedBackoff ==
    retry.pc # "idle" =>
        /\ Len(Attempts) <= retry.retries
        /\ \A k \in 1..Len(Attempts) :
              Attempts[k].type = "return"
                  => /\ k = Len(Attempts)
                     /\ retry.pc = "returned"
                     /\ retry.result = <<Attempts[k]>>
        /\ \A k \in 1..Len(retry.slept) : retry.slept[k] = retry.delay * k
        /\ Len(retry.slept) >= Len(Attempts) - 1
        /\ (/\ retry.pc \in {"returned", "raised"}
            /\ retry.retries > 0
            /\ Len(Attempts) = retry.retries
            /\ \A k \in 1..Len(Attempts) : Attempts[k].cause = "lock")
              => /\ retry.pc = "raised"
                 /\ retry.result = <<Attempts[retry.retries]>>

\* C12 witness: the default three attempts all met a locked store and the
\* wrapper raised the last error after waits of delay, 2*delay and 3*delay.
C12_Witness ==
    /\ retry.pc = "raised"
    /\ retry.retries = 3
    /\ Len(Attempts) = 3
    /\ \A k \in 1..3 : Attempts[k].cause = "lock"
    /\ retry.slept = <<retry.delay, 2 * retry.delay, 3 * retry.delay>>

----------------------------------------------------------------------------
(* Claims about a single fetch (checked under SpecFetch) *)

\* C14 (as claimed): 404 gives the no-data result; every other status
\* outside 200..299 gives an error whose message carries the status code;
\* every status in 200..299 goes on to the extraction of the station name
\* and of the data block.
C14_Every2xxExtracts ==
    fetch.pc = "done" =>
        LET st == fetch.resp.status IN
        /\ st = 404 => fetch.out = "nodata"
        /\ (st \notin 200..299 /\ st \notin {0, 404})
              => /\ fetch.out = "http_error"
                 /\ fetch.message.code = st
        /\ st \in 200..299 => fetch.out \in {"result", "no_pre"}

\* C14 (amended): 404 gives the no-data result without a message; every
\* other status except 200 gives an error whose message carries the status
\* code; status 200 alone goes on to the extraction: with a data block the
\* result carries the heading, or the station id when there is no heading,
\* and without a data block the fetch fails with the missing-block error.
C14_Only200Extracts ==
    fetch.pc = "done" =>
        LET st == fetch.resp.status IN
        /\ st = 404 => (fetch.out = "nodata" /\ fetch.message = NoMessage)
        /\ st \notin {0, 200, 404}
              => /\ fetch.out = "http_error"
                 /\ fetch.message.code = st
        /\ st = 200
              => IF fetch.resp.pre
                 THEN /\ fetch.out = "result"
                      /\ fetch.name = IF fetch.resp.h3 = None THEN RunStation
                                      ELSE fetch.resp.h3
                 ELSE /\ fetch.out = "no_pre"
                      /\ fetch.message # NoMessage

\* C14 witness: a response with status 204 and a data block was classified
\* as an error that names the status.
C14_Witness ==
    /\ fetch.pc = "done"
    /\ fetch.resp.status = 204
    /\ fetch.resp.pre
    /\ fetch.out = "http_error"
    /\ fetch.message = Message("HTTP", 204)

----------------------------------------------------------------------------
(* Claims about persistence batches (checked under SpecBatch) *)

\* the items of a batch that name a key, and the last of them
ItemsOf(items, sid, cap) ==
    {k \in 1..Len(items) : /\ items[k].station_id = sid
                           /\ items[k].captured_at = cap}
LastItem(items, sid, cap) ==
    items[CHOOSE k \in ItemsOf(items, sid, cap) :
              \A j \in ItemsOf(items, sid, cap) : j <= k]

\* C16: while a batch is open the committed store, which is what a reader
\* on another connection gets, is the store from before the batch.
C16_Isolated ==
    txn.open => /\ <<stations, soundings>> = txn.pre
                /\ Observable(stations, soundings, txn) = txn.pre

\* C16: the step that ends a batch either commits it whole - every key of
\* the batch has its row with the payload of the last item of that key, its
\* station is present, and the rows of other keys are as before - or, when
\* a statement raised, leaves the store as it was before the batch; no
\* other step of a batch changes the committed store, and a read made
\* during a batch returns the pre-batch state.
C16_Step ==
    /\ (txn.open /\ txn'.open)
          => (stations' = stations /\ soundings' = soundings)
    /\ (txn.open /\ ~txn'.open /\ lastOp'.kind = "rollback")
          => <<stations', soundings'>> = txn.pre
    /\ (txn.open /\ ~txn'.open /\ lastOp'.kind = "commit")
          => /\ \A k \in 1..Len(txn.items) :
                   LET sid == txn.items[k].station_id
                       cap == txn.items[k].captured_at
                   IN /\ sid \in DOMAIN stations'
                      /\ Cardinality(RowsOf(soundings', sid, cap)) = 1
                      /\ \A r \in RowsOf(soundings', sid, cap) :
                            r.payload = LastItem(txn.items, sid, cap).payload
             /\ {r \in soundings' :
                    ItemsOf(txn.items, r.station_id, r.captured_at) = {}}
                = {r \in soundings :
                    ItemsOf(txn.items, r.station_id, r.captured_at) = {}}
    /\ (txn.open /\ lastOp' # lastOp /\ lastOp'.kind = "read")
          => lastOp'.ret = txn.pre

C16_BatchAtomic == []C16_Isolated /\ [][C16_Step]_vars

\* C16 witness: a batch of two soundings was rolled back and the store,
\* which holds rows, is the one from before the batch.
C16_Witness ==
    /\ lastOp.kind = "rollback"
    /\ Len(lastOp.arg) = 2
    /\ soundings # {}
    /\ <<stations, soundings>> = lastOp.ret[1]

----------------------------------------------------------------------------
(* Claims about the catalogue (checked under SpecStations) *)

\* C18: ensure_station on a present id changes nothing and returns the
\* station as the row has it; on an absent id it adds one row for that id,
\* named by the supplied name or by the id when no name is given, without
\* coordinates and source, leaves the other rows alone and returns that
\* placeholder.
C18_Step ==
    (clock' # clock /\ lastOp'.kind = "ensure") =>
        LET id == lastOp'.id
            name == lastOp'.arg
            ret == lastOp'.ret
        IN IF id \in DOMAIN stations
           THEN /\ stations' = stations
                /\ ret.stationid = id
                /\ ret.name = stations[id].name
                /\ ret.coords = stations[id].coords
                /\ ret.src = stations[id].src
           ELSE /\ DOMAIN stations' = DOMAIN stations \cup {id}
                /\ \A x \in DOMAIN stations : stations'[x] = stations[x]
                /\ stations'[id].name = IF name \in {None, ""} THEN id
                                        ELSE name
                /\ stations'[id].coords = None
                /\ stations'[id].src = None
                /\ ret.stationid = id
                /\ ret.name = stations'[id].name
                /\ ret.coords = None

C18_EnsureKeepsExisting == [][C18_Step]_vars

\* C18 witness: ensure_station was called with a name for a station of the
\* catalogue that has coordinates and another name, and the row has them
\* still.
C18_Witness ==
    /\ lastOp.kind = "ensure"
    /\ lastOp.arg \in Names
    /\ lastOp.id \in DOMAIN stations
    /\ stations[lastOp.id].coords = "c1"
    /\ stations[lastOp.id].name # lastOp.arg
    /\ lastOp.ret.name = stations[lastOp.id].name

\* the entries of a list that name a station, and the last of them
EntriesOf(infos, id) == {k \in 1..Len(infos) : infos[k].stationid = id}
LastEntry(infos, id) ==
    infos[CHOOSE k \in EntriesOf(infos, id) :
              \A j \in EntriesOf(infos, id) : j <= k]

\* C19: after upsert_many every station of the list has a row with the
\* name, coordinates, source and updated_at of its (last) entry, whether
\* the id was present or not; every other row is as before; the call
\* returns the length of the list; an empty list returns 0 and changes no
\* row; soundings are not touched.
C19_Step ==
    (clock' # clock /\ lastOp'.kind = "upsert_many") =>
        LET infos == lastOp'.arg
            ids == {infos[k].stationid : k \in 1..Len(infos)}
        IN /\ DOMAIN stations' = DOMAIN stations \cup ids
           /\ \A id \in ids :
                 /\ stations'[id].name = LastEntry(infos, id).name
                 /\ stations'[id].coords = LastEntry(infos, id).coords
                 /\ stations'[id].src = LastEntry(infos, id).src
                 /\ <<stations'[id].updated_at>>
                        = LastEntry(infos, id).updated_at
           /\ \A x \in DOMAIN stations \ ids : stations'[x] = stations[x]
           /\ lastOp'.ret = Len(infos)
           /\ infos = <<>> => (stations' = stations /\ lastOp'.ret = 0)
           /\ soundings' = soundings

C19_UpsertManyOverwrites == [][C19_Step]_vars

\* C19 witness: the first station of the store, inserted before the
\* placeholder of another station, was overwritten by the last upsert_many
\* and the placeholder is as it was.
C19_Witness ==
    /\ lastOp.kind = "upsert_many"
    /\ lastOp.ret >= 1
    /\ \E a, b \in DOMAIN stations :
          /\ EntriesOf(lastOp.arg, a) # {}
          /\ EntriesOf(lastOp.arg, b) = {}
          /\ stations[a].rowid = 1
          /\ stations[a].updated_at = clock - 1
          /\ stations[b].rowid = 2
          /\ stations[b].coords = None

----------------------------------------------------------------------------
(* Claims about the identifier of a sounding (checked under SpecStore) *)

\* C20 (as claimed): upsert_sounding returns the id of the row of the key:
\* an id no row had when the key was absent, and the id of the existing row
\* when the key was present; that row keeps its id, station_id and
\* captured_at, and the rows of other keys are as before.
C20_Step ==
    (clock' # clock /\ lastOp'.kind = "upsert") =>
        LET sid == lastOp'.id
            cap == lastOp'.arg
            ret == lastOp'.ret
        IN /\ \E r \in RowsOf(soundings', sid, cap) : r.id = ret
           /\ RowsOf(soundings, sid, cap) = {}
                 => ret \notin {r.id : r \in soundings}
           /\ \A r \in RowsOf(soundings, sid, cap) :
                 /\ ret = r.id
                 /\ \E q \in RowsOf(soundings', sid, cap) : q.id = r.id
           /\ soundings' \ RowsOf(soundings', sid, cap)
                 = soundings \ RowsOf(soundings, sid, cap)

C20_ReturnsRowId == [][C20_Step]_vars

----------------------------------------------------------------------------
(* Claims about queries (checked under SpecQuery) *)

\* a row matches the filter of the query: its station is one of the given
\* station ids, and its instant is within the inclusive time range
C21_Matching ==
    {r \in soundings :
        /\ query.station_ids # <<>>
              => r.station_id \in Range(query.station_ids[1])
        /\ query.start # <<>> => r.captured_at >= query.start[1]
        /\ query.end # <<>> => r.captured_at <= query.end[1]}

C21_Skip == IF query.offset < 0 THEN 0 ELSE query.offset

----------------------------------------------------------------------------
(* Claims about the station sync (checked under SpecSync) *)

\* the steps of a sync come in the order fetch, upsert, read-back
C22_Ordered ==
    sync.pc # "idle" =>
        \E n \in 0..3 : sync.steps = SubSeq(<<"fetch", "upsert", "read">>,
                                            1, n)

\* a list is delivered only after all three steps, none of which failed,
\* and it is the list that was read back
C22_Delivered ==
    (sync.pc # "idle" /\ sync.delivered # <<>>) =>
        /\ sync.steps = <<"fetch", "upsert", "read">>
        /\ sync.failed = <<>>
        /\ sync.delivered = sync.readback

\* the read-back takes the catalogue of the store as it is at that moment,
\* which holds the committed upsert of the fetched list
C22_Step ==
    (sync.pc = "upserted" /\ sync'.pc = "read") =>
        /\ sync'.readback = <<list_all(stations)>>
        /\ \A k \in 1..Len(sync.fetched[1]) :
              sync.fetched[1][k].stationid \in DOMAIN stations

\* a failed fetch or upsert ends the sync without a list
C22_FailStep ==
    (sync.pc # "idle" /\ sync'.pc # "idle" /\ sync'.failed # <<>>) =>
        /\ sync'.pc = "done"
        /\ sync'.delivered = <<>>

\* C22: the sync performs fetch, then upsert, then read-back, in that
\* order; the list delivered is the catalogue of the store as read back
\* after the upsert committed, never the network response; when the fetch
\* or the upsert fails no list is delivered.
C22_SyncOrder ==
    /\ [](C22_Ordered /\ C22_Delivered)
    /\ [][C22_Step /\ C22_FailStep]_vars

\* a list was delivered that differs from what the network returned: the
\* store held another station
C22_Witness ==
    /\ sync.pc = "done"
    /\ sync.delivered # <<>>
    /\ sync.fetched[1] # <<>>
    /\ \E k \in 1..Len(sync.delivered[1]) :
          \A j \in 1..Len(sync.fetched[1]) :
             sync.delivered[1][k].stationid # sync.fetched[1][j].stationid

----------------------------------------------------------------------------
(* Claims about the table parser (checked under SpecParse) *)

ParseDone == parse.pc \in {"parsed", "reparsed"}

\* the line number of the header: the first line whose first token is the
\* header token, 0 when there is none
HeaderLine ==
    LET H == {i \in 1..Len(parse.text) :
                 parse.text[i] # <<>> /\ parse.text[i][1] = "PRES"}
    IN IF H = {} THEN 0 ELSE CHOOSE i \in H : \A j \in H : i <= j

\* the line number of the first blank line after the header, or one past
\* the last line
EndLine ==
    LET B == {i \in (HeaderLine + 1)..Len(parse.text) : parse.text[i] = <<>>}
    IN IF B = {} THEN Len(parse.text) + 1
       ELSE CHOOSE i \in B : \A j \in B : i <= j

\* C23 (as claimed): for a text block with a recognizable header, parsing,
\* serializing the rows and re-parsing that text yields the same columns
\* and the same typed row values (number, text or absent) as the first
\* parse.
C23_RoundTrip ==
    (parse.pc = "reparsed" /\ HeaderLine > 0) =>
        /\ parse.re.columns = parse.out.columns
        /\ parse.re.rows = parse.out.rows

\* the base names of the header line
HeaderNames == Range(parse.text[HeaderLine])
HasAbsh == "RELH" \in HeaderNames /\ "TEMP" \in HeaderNames

\* the inputs of a row are numeric
C24_Numeric(row) ==
    row["RELH,%"].kind = "number" /\ row["TEMP,C"].kind = "number"

\* C24 (as claimed): with RELH and TEMP in the header an ABSH column is
\* appended, and the ABSH value of a row is absent exactly when its RELH or
\* TEMP value is absent or not numeric, and otherwise is the formula value
\* of (TEMP, RELH); with either column missing there is no ABSH column.
C24_AbsentOnlyWhenMissing ==
    (ParseDone /\ HeaderLine > 0) =>
        LET cols == parse.out.columns
            rows == parse.out.rows
        IN IF HasAbsh
           THEN /\ cols[Len(cols)] = "ABSH,g/m3"
                /\ \A k \in 1..Len(rows) :
                      /\ rows[k]["ABSH,g/m3"] = NoneValue
                            <=> ~C24_Numeric(rows[k])
                      /\ C24_Numeric(rows[k]) =>
                            <<rows[k]["ABSH,g/m3"].v>>
                               = absh_formula(rows[k]["RELH,%"].v,
                                              rows[k]["TEMP,C"].v)
           ELSE "ABSH,g/m3" \notin Range(cols)

\* the formula has a value on the inputs of a row
C24_Defined(row) ==
    /\ C24_Numeric(row)
    /\ absh_formula(row["RELH,%"].v, row["TEMP,C"].v) # <<>>

\* C24 (amended): with RELH and TEMP in the header an ABSH column is
\* appended, and the ABSH value of a row is absent exactly when its RELH or
\* TEMP value is absent or not numeric or the formula cannot be evaluated
\* on them, and otherwise is the number the formula gives for (TEMP, RELH),
\* which is zero only when the formula gives zero; with either column
\* missing there is no ABSH column.
C24_AbsentOrFormula ==
    (ParseDone /\ HeaderLine > 0) =>
        LET cols == parse.out.columns
            rows == parse.out.rows
        IN IF HasAbsh
           THEN /\ cols[Len(cols)] = "ABSH,g/m3"
                /\ \A k \in 1..Len(rows) :
                      /\ rows[k]["ABSH,g/m3"] = NoneValue
                            <=> ~C24_Defined(rows[k])
                      /\ C24_Defined(rows[k]) =>
                            rows[k]["ABSH,g/m3"]
                               = Num(absh_formula(rows[k]["RELH,%"].v,
                                                  rows[k]["TEMP,C"].v)[1])
           ELSE "ABSH,g/m3" \notin Range(cols)

\* a table with a row whose TEMP is a text, a row on which the formula
\* cannot be evaluated and a row with a number for ABSH
C24_Witness ==
    /\ ParseDone
    /\ HeaderLine > 0
    /\ HasAbsh
    /\ \E k \in 1..Len(parse.out.rows) :
          parse.out.rows[k]["TEMP,C"].kind = "text"
    /\ \E k \in 1..Len(parse.out.rows) :
          /\ C24_Numeric(parse.out.rows[k])
          /\ parse.out.rows[k]["ABSH,g/m3"] = NoneValue
    /\ \E k \in 1..Len(parse.out.rows) :
          parse.out.rows[k]["ABSH,g/m3"].kind = "number"

\* C28: blank lines before the header are ignored (the header is found
\* behind them and gives the columns), and the first blank line after the
\* header ends data collection: every row comes from a line between the
\* header and that blank line.
C28_BlankEndsData ==
    ParseDone =>
        /\ parse.out.header_seen = (HeaderLine > 0)
        /\ HeaderLine > 0 =>
              /\ Len(parse.out.columns) >= Len(parse.text[HeaderLine])
              /\ \A j \in 1..Len(parse.text[HeaderLine]) :
                    parse.out.columns[j] = label(parse.text[HeaderLine][j])
        /\ Len(parse.out.rows) = Len(parse.out.src)
        /\ \A k \in 1..Len(parse.out.src) :
              /\ HeaderLine > 0
              /\ HeaderLine < parse.out.src[k]
              /\ parse.out.src[k] < EndLine

\* a well-formed numeric row stands behind the blank line that follows a
\* header and a row, and the table has the one row
C28_Witness ==
    /\ ParseDone
    /\ HeaderLine = 1
    /\ EndLine = 3
    /\ Len(parse.text) = 4
    /\ parse.text[4] = <<"1000", "20.0", "70.0">>
    /\ parse.out.src = <<2>>

\* the lines between the header and the end of the data that pass both
\* tests of a row
C29_RowLines ==
    {i \in (HeaderLine + 1)..(EndLine - 1) :
        /\ Len(parse.text[i]) >= Len(parse.text[HeaderLine])
        /\ float(parse.text[i][1]) # <<>>}

\* C29: between the header and the terminating blank line a non-blank line
\* yields a row if and only if it has at least as many tokens as the header
\* and its first token parses as a number; other lines are skipped without
\* ending the data, and the rows keep the order of the lines.
C29_RowIffBothTests ==
    (ParseDone /\ HeaderLine > 0) =>
        /\ Range(parse.out.src) = C29_RowLines
        /\ \A i, j \in 1..Len(parse.out.src) :
              i < j => parse.out.src[i] < parse.out.src[j]
        /\ \A k \in 1..Len(parse.out.src) :
              \A j \in 1..Len(parse.text[HeaderLine]) :
                 \/ \E i \in (j + 1)..Len(parse.text[HeaderLine]) :
                       parse.text[HeaderLine][i] = parse.text[HeaderLine][j]
                 \/ parse.out.rows[k][parse.out.columns[j]]
                       = cell(parse.text[parse.out.src[k]][j])

\* a line failing the token count and a line failing the number test are
\* skipped and a later line still yields a row
C29_Witness ==
    /\ ParseDone
    /\ HeaderLine = 1
    /\ Len(parse.text) = 4
    /\ parse.text[2] = <<"hPa", "C", "%">>
    /\ parse.text[3] = <<"700.0">>
    /\ parse.out.src = <<4>>

\* C30: input that is empty or has no line starting with the header token
\* yields an empty column set and an empty row set with the raw text as it
\* was given: the call returns that payload, it does not raise.
C30_NoHeaderIsEmpty ==
    (ParseDone /\ HeaderLine = 0) =>
        /\ parse.out.columns = <<>>
        /\ parse.out.rows = <<>>
        /\ parse.out.raw = parse.text

\* a block without a header that holds a numeric row
C30_Witness ==
    /\ ParseDone
    /\ HeaderLine = 0
    /\ \E i \in 1..Len(parse.text) :
          parse.text[i] = <<"1000", "20.0", "70.0">>
    /\ \E i \in 1..Len(parse.text) : parse.text[i] = <<>>

----------------------------------------------------------------------------
(* Claims about the integrator (checked under SpecPwv) *)

PwvDone == pwv.pc = "done"

\* the height and the density of a row as numbers, when they are numbers
C25_Height(k) == float_of_repr(pwv.rows[k]["HGHT,m"].v)
C25_Density(k) == float_of_repr(pwv.rows[k]["ABSH,g/m3"].v)

\* both columns are there, and the rows with a numeric height at or above
\* the threshold and a numeric density
C25_BothColumns ==
    "HGHT,m" \in Range(pwv.columns) /\ "ABSH,g/m3" \in Range(pwv.columns)
C25_Usable ==
    {k \in 1..Len(pwv.rows) :
        /\ pwv.rows[k]["HGHT,m"].kind = "number"
        /\ pwv.rows[k]["ABSH,g/m3"].kind = "number"
        /\ ~C25_Height(k).nan
        /\ C25_Height(k).n >= pwv.min_height}

\* the orders of the usable rows in which the height never decreases
C25_Orders ==
    {q \in [1..Cardinality(C25_Usable) -> C25_Usable] :
        /\ \A i, j \in DOMAIN q : i # j => q[i] # q[j]
        /\ \A i, j \in DOMAIN q :
              i < j => C25_Height(q[i]).n <= C25_Height(q[j]).n}

\* twice the trapezoidal sum along an order of rows
RECURSIVE C25_Sum(_, _)
C25_Sum(q, i) ==
    IF i >= Len(q) THEN 0
    ELSE (C25_Height(q[i + 1]).n - C25_Height(q[i]).n)
            * (C25_Density(q[i]).n + C25_Density(q[i + 1]).n)
         + C25_Sum(q, i + 1)

\* C25 (as claimed): the integrator returns None, never a number, when
\* fewer than two rows have a numeric height at or above the threshold and
\* a numeric density, or when a column is missing; with two or more such
\* rows it returns the trapezoidal integral of the density over the height
\* divided by 1000.
C25_UndefinedBelowTwo ==
    PwvDone =>
        IF ~C25_BothColumns \/ Cardinality(C25_Usable) < 2
        THEN pwv.result = NoneResult
        ELSE /\ pwv.result.kind = "number"
             /\ ~pwv.result.nan
             /\ \E q \in C25_Orders :
                   pwv.result.num * 2 * 1000
                      = C25_Sum(q, 1) * pwv.result.den

\* the rows in another order
C26_Permutations ==
    {[k \in 1..Len(pwv.rows) |-> pwv.rows[p[k]]] :
        p \in {f \in [1..Len(pwv.rows) -> 1..Len(pwv.rows)] :
                  \A i, j \in 1..Len(pwv.rows) : i # j => f[i] # f[j]}}

\* C26 (as claimed): for every list of rows, heights not assumed distinct,
\* and every threshold, the integrator returns the same result for every
\* permutation of the rows.
C26_OrderIndependent ==
    PwvDone =>
        \A rows \in C26_Permutations :
           compute_pwv_for_record(pwv.columns, rows, pwv.min_height)
              = pwv.result

----------------------------------------------------------------------------
(* Claims about termination (checked under SpecLive) *)

\* C27: with every request settling and every storage call returning, every
\* run eventually emits its terminal outcome, also when cancellation is
\* requested while tasks are in flight or waiting for a permit.
C27_RunTerminates == <>(pc = "finished" /\ outcome # None)

\* a run that ended as cancelled: a request settled with the flag set and
\* an outstanding task was cancelled
C27_Witness ==
    /\ pc = "finished"
    /\ outcome = "cancelled"
    /\ late # {}
    /\ \E i \in DOMAIN task : task[i] = "cancelled"

----------------------------------------------------------------------------
(* Claims about the end of a run *)

\* the processing loop ends: every task was yielded and _run goes on to
\* its tail
C31_LoopEnds == pc = "for" /\ Len(processed) = total /\ pc' = "finished"

\* the text of the k-th recorded error
C31_Message(k) == error_message(errors[k], tres[errors[k]])

\* the last three recorded messages, separated by "; "
C31_LastThree ==
    LET n == Len(errors)
    IN IF n = 1 THEN C31_Message(1)
       ELSE IF n = 2 THEN C31_Message(1) \o "; " \o C31_Message(2)
       ELSE C31_Message(n - 2) \o "; " \o C31_Message(n - 1) \o "; "
            \o C31_Message(n)

\* C31: when the processing loop of a run ends, the outcome is Cancelled if
\* the cancel flag is set at that moment, also when every instant was
\* processed and persisted; otherwise it is a failure whose text is the last
\* three recorded error messages verbatim if any error was recorded;
\* otherwise it is success
C31_TerminalOutcome ==
    [][C31_LoopEnds =>
          IF cancel_flag
          THEN outcome' = "cancelled" /\ summary' = "cancelled"
          ELSE IF errors # <<>>
          THEN outcome' = "failed" /\ summary' = C31_LastThree
          ELSE outcome' = "completed" /\ summary' = "done"]_vars

\* a run of four instants ended as a failure with four recorded errors, of
\* which the text carries the last three
C31_Witness ==
    /\ pc = "finished"
    /\ ~cancel_flag
    /\ Len(processed) = total
    /\ Len(errors) = 4
    /\ outcome = "failed"
    /\ summary = C31_LastThree

\* the received results whose _write raised
C35_WriteFailed ==
    {i \in Received : tres[i] = "result" /\ i \notin written}

\* the failure is recorded as that instant's error, the progress report of
\* the instant is one above the one before it, and every row that the run
\* persisted is in the store
C35_Recorded ==
    /\ \A i \in C35_WriteFailed : i \in Range(errors)
    /\ Len(progress) = Len(processed)
    /\ \A k \in 1..Len(progress) : progress[k] = k
    /\ \A j \in written : RunRows(j) # {}

\* C35 (as claimed): when persisting a fetched result fails, the failure is
\* recorded as that instant's error, progress advances by one, the
\* remaining instants are still processed, earlier persisted results stay
\* in the store, and the run ends as a failure.
C35_WriteFailureFails ==
    C35_WriteFailed # {}
        => /\ C35_Recorded
           /\ pc = "finished" => (Received = 1..total /\ outcome = "failed")

\* C35 (amended): when persisting a fetched result fails, the failure is
\* recorded as that instant's error, progress advances by one and earlier
\* persisted results stay in the store; a run whose cancel flag is not set
\* before it ends still processes the remaining instants and ends as a
\* failure, a run whose flag is set ends as Cancelled.
C35_WriteFailureRecorded ==
    C35_WriteFailed # {}
        => /\ C35_Recorded
           /\ pc = "finished"
                 => IF cancel_flag THEN outcome = "cancelled"
                    ELSE Received = 1..total /\ outcome = "failed"

\* a run ended as a failure after a write failed between two writes that
\* went through
C35_Witness ==
    /\ pc = "finished"
    /\ outcome = "failed"
    /\ \E k, l, m \in 1..Len(processed) :
          /\ k < l
          /\ l < m
          /\ processed[k] \in written
          /\ processed[l] \in C35_WriteFailed
          /\ processed[m] \in written
    /\ \A j \in written : RunRows(j) # {}

\* C38: a run started with an empty list of target instants ends
\* immediately with a failure outcome: it has no step between its start and
\* its end, creates no task and sends no request, reports no progress and
\* writes nothing to the store
C38_EmptyRunFails ==
    total = 0
        => /\ pc \in {"idle", "finished"}
           /\ pc = "finished" => (outcome = "failed"
                                  /\ summary = "no datetimes")
           /\ DOMAIN task = {}
           /\ queue = <<>>
           /\ processed = <<>>
           /\ progress = <<>>
           /\ written = {}
           /\ soundings = {}
           /\ DOMAIN stations = {}
           /\ lastOp = NoOp

\* a run without instants has ended
C38_Witness ==
    /\ total = 0
    /\ pc = "finished"
    /\ outcome = "failed"
    /\ progress = <<>>
    /\ lastOp = NoOp

----------------------------------------------------------------------------
(* Claims about the signals of StationListWorker (checked under SpecSync) *)

C36_Worker == sync.pc # "idle" /\ sync.variant = "worker"

\* a running worker has emitted none of the four signals; a worker that
\* ended has emitted one of loaded, failed and canceled, and then finished
C36_Signals ==
    C36_Worker =>
        IF sync.pc # "done" THEN sync.signals = <<>>
        ELSE /\ Len(sync.signals) = 2
             /\ sync.signals[1] \in {"loaded", "failed", "canceled"}
             /\ sync.signals[2] = "finished"
             /\ sync.signals[1] = "loaded" <=> sync.delivered # <<>>
             /\ sync.signals[1] = "failed" <=> sync.failed # <<>>

\* a run that ended canceled after its upsert delivered no list and left
\* the row of every fetched station in the catalogue
C36_Persisted ==
    (C36_Worker /\ sync.pc = "done" /\ sync.signals[1] = "canceled"
     /\ Len(sync.steps) >= 2) =>
        /\ sync.delivered = <<>>
        /\ \A k \in 1..Len(sync.fetched[1]) :
              LET id == sync.fetched[1][k].stationid
              IN /\ id \in DOMAIN stations
                 /\ stations[id].name
                       = LastEntry(sync.fetched[1], id).name
                 /\ stations[id].src = "net"

\* the flag is not looked at during the fetch; at each of the three check
\* points a set flag ends the run as canceled, and nothing else does
C36_Step ==
    (C36_Worker /\ sync'.pc # sync.pc) =>
        /\ sync.pc = "start" => sync'.signals \in {<<>>, <<"failed", "finished">>}
        /\ sync.pc \in {"fetched", "upserted", "read"} =>
              (sync.cancel <=> sync'.signals = <<"canceled", "finished">>)

\* C36: every run of the station-list worker emits exactly one of loaded,
\* failed and canceled and then finished exactly once; a cancellation is
\* observed only at the check points after the fetch, after the upsert and
\* after the read-back, so that a cancel observed after the upsert leaves
\* the fetched stations persisted although no list is delivered
C36_OneSignalThenFinished ==
    /\ [](C36_Signals /\ C36_Persisted)
    /\ [][C36_Step]_vars

\* a worker that saw its flag at the check after the upsert ended canceled
\* with the fetched stations in the catalogue
C36_Witness ==
    /\ C36_Worker
    /\ sync.signals = <<"canceled", "finished">>
    /\ sync.steps = <<"fetch", "upsert">>
    /\ sync.fetched[1] # <<>>
    /\ sync.delivered = <<>>
    /\ \A k \in 1..Len(sync.fetched[1]) :
          sync.fetched[1][k].stationid \in DOMAIN stations

----------------------------------------------------------------------------
(* Claims about an empty station list (checked under SpecQuery) *)

\* the rows in the time range of a query, whatever their station
C37_InRange ==
    {r \in soundings :
        /\ query.start # <<>> => r.captured_at >= query.start[1]
        /\ query.end # <<>> => r.captured_at <= query.end[1]}

\* the stations whose id or name contains the text of the station query
C37_Matches ==
    {id \in DOMAIN stations :
        \/ ilike(id, lower(query.station_query[1]))
        \/ ilike(stations[id].name, lower(query.station_query[1]))}

\* C37: an empty station-id list passed to list or count is no station
\* filter: count is the number of rows of all stations in the time range
\* and list returns rows of them up to its limit; the sounding-load worker
\* returns an empty result itself, without calling list, when its station
\* query matches no station
C37_EmptyListIsNoFilter ==
    /\ (query.pc = "done" /\ query.station_ids = <<<<>>>>) =>
          LET left == IF Cardinality(C37_InRange) > C21_Skip
                      THEN Cardinality(C37_InRange) - C21_Skip ELSE 0
          IN /\ query.count = Cardinality(C37_InRange)
             /\ \A k \in 1..Len(query.rows) : query.rows[k] \in C37_InRange
             /\ Len(query.rows)
                   = IF left < query.limit THEN left ELSE query.limit
    /\ (query.pc = "loaded" /\ query.station_query # <<>>
        /\ query.station_query[1] # "" /\ C37_Matches = {}) =>
          /\ query.rows = <<>>
          /\ ~query.listed

\* count and list with a given, empty station list returned the rows of two
\* stations
C37_Witness ==
    /\ query.pc = "done"
    /\ query.station_ids = <<<<>>>>
    /\ query.count >= 2
    /\ \E i, j \in 1..Len(query.rows) :
          query.rows[i].station_id # query.rows[j].station_id

----------------------------------------------------------------------------
(* Claims about build_datetimes (checked under SpecDates) *)

\* the returned list is start, start + step, ... up to the last instant of
\* that progression that is not after end
C39_Progression ==
    LET q == dates.result.list
    IN /\ q # <<>>
       /\ \A k \in 1..Len(q) :
             q[k] = dates.start + (k - 1) * dates.step_hours
       /\ \A k \in 1..(Len(q) - 1) : q[k] < q[k + 1]
       /\ q[Len(q)] <= dates.end
       /\ q[Len(q)] + dates.step_hours > dates.end

\* C39 (as claimed): build_datetimes fails with an error when
\* step_hours <= 0 or start > end; otherwise it returns the non-empty,
\* strictly increasing list start, start + step, ... of exactly the
\* instants of that progression that are <= end.
C39_ErrorOrProgression ==
    dates.pc = "done" =>
        IF dates.step_hours <= 0 \/ dates.start > dates.end
        THEN dates.result.kind # "list"
        ELSE dates.result.kind = "list" /\ C39_Progression

----------------------------------------------------------------------------
(* Claims about ensure_station beside upsert_many (checked under
   SpecEnsure) *)

\* C33 (as claimed): ensure_station never changes the name or the
\* coordinates of a station row that exists at the time of its write, also
\* when an upsert_many of the same id commits between its lookup and its
\* placeholder write.
C33_WriteKeepsRows ==
    [][(ensure.pc = "looked" /\ ensure'.pc = "done") =>
          \A id \in DOMAIN stations :
             /\ stations'[id].name = stations[id].name
             /\ stations'[id].coords = stations[id].coords]_vars

----------------------------------------------------------------------------
(* Claims about the download controls (checked under SpecWindow) *)

\* the finalize calls made while download k was the current one
C32_FinalizesOf(k) ==
    {i \in 1..Len(ui.finalizes) : ui.finalizes[i].download = k}

\* every thread has ended and the UI thread has handled every signal
C32_Quiet ==
    /\ ui.pc = "ready"
    /\ ui.events = <<>>
    /\ \A k \in 1..Len(ui.thread) : ui.thread[k] = "exited"

\* C32 (as claimed): for each started download the finalize step runs
\* exactly once, whichever of the done and finished signals arrives first;
\* a finalize call is made for the download whose signal started it, never
\* for a later download on a signal of an earlier one; while a download is
\* current its controls stay disabled.
C32_FinalizeOncePerDownload ==
    /\ \A k \in 1..Len(ui.thread) :
          /\ Cardinality(C32_FinalizesOf(k)) <= 1
          /\ C32_Quiet => Cardinality(C32_FinalizesOf(k)) = 1
    /\ \A i \in 1..Len(ui.finalizes) :
          ui.finalizes[i].by.from = ui.finalizes[i].download
    /\ ui.download_thread # 0 => ~ui.enabled

\* the results handed to the store by finalize call i
C34_Batch(i) == Range(ui.finalizes[i].payloads)

\* C34 (as claimed): when _finalize_download returns the accumulator is
\* empty, whether its batch write committed or failed, and no accumulated
\* result is handed to the store by two finalize calls.
C34_DrainedBeforeWrite ==
    /\ \A i \in 1..Len(ui.finalizes) : ui.finalizes[i].left = <<>>
    /\ \A i, j \in 1..Len(ui.finalizes) :
          i # j => C34_Batch(i) \cap C34_Batch(j) = {}

====
